---------------------------- MODULE Spec2Model ----------------------------
(***************************************************************************)
(* A model of Noah's two decision components and of the chat route that    *)
(* calls them:                                                             *)
(*   - NoahContentFilter.checkContent  (src/src/lib/safety/content-filter.ts)*)
(*   - StructuredResponseParser.parse  (src/unnamed/part_003, types.ts)    *)
(*   - noahChatHandler / noahStreamingChatHandler (src/src/app/api/chat/route.ts)*)
(*                                                                         *)
(* Text is modelled at word granularity.  A user message is a sequence of  *)
(* words; the string the code sees is the words joined by single spaces.   *)
(* A regular expression of the source is a sequence of segments separated  *)
(* by ".*"; a segment is a run of adjacent words, each position holding    *)
(* the alternatives the source lists.  Because the source's patterns are   *)
(* unanchored, the first word of a segment may match the end of a message  *)
(* word and the last word of a segment its beginning (tables ProperPrefix, *)
(* ProperSuffix, ProperInfix), and "." does not cross a newline.           *)
(* Confidences are in hundredths (0.95 is 95).                             *)
(***************************************************************************)
EXTENDS Integers, Sequences, FiniteSets, TLC

VARIABLES
    \* ---- content filter ----
    message,    \* context.userMessage of the call, a sequence of words
    fstate,     \* "ready": checkContent not yet called; "returned": it has returned
    verdict,    \* the SafetyCheckResult returned
    invoked,    \* the category evaluators the call invoked, in order
    logged,     \* the logger entries the call emitted, in order
    \* ---- structured response parser ----
    ptext,      \* the content argument of parse, a string of tokens
    pagent,     \* the agentUsed argument of parse
    pstate,     \* "ready": parse not yet called; "returned": it has returned
    presult,    \* the ParseResult returned
    attempted,  \* the strategies the call attempted, in order
    \* ---- chat route ----
    request,    \* the request the handler was called with
    cpc,        \* where the handler is
    safety,     \* the SafetyResponse of checkUserMessage
    local,      \* the handler's locals
    calls,      \* the calls of collaborators so far, in order
    reply,      \* the response returned
    \* ---- calls in a row ----
    past,       \* the calls of checkContent and parse made so far, in order,
                \* each with its arguments and its result
    \* ---- artifact inference ----
    infer,      \* a title and a content, and what is inferred from them
    \* ---- agent cache of the chat route ----
    agents,     \* the module-level cache, the initialisation runs and the callers
    \* ---- analytics connection pool ----
    pool        \* a call of executeQuery and the clients of the pool

filterVars == <<message, fstate, verdict, invoked>>
parserVars == <<ptext, pagent, pstate, presult, attempted>>
chatVars == <<request, cpc, safety, local, calls, reply>>
vars == <<message, fstate, verdict, invoked, logged,
          ptext, pagent, pstate, presult, attempted,
          request, cpc, safety, local, calls, reply, past,
          infer, agents, pool>>

NoVerdict == [none |-> TRUE]

-----------------------------------------------------------------------------
(***************************************************************************)
(* Words and strings                                                       *)
(***************************************************************************)

\* String.prototype.toLowerCase on one word.
toLowerCase(w) ==
    CASE w = "I" -> "i"
      [] w = "KILL" -> "kill"
      [] w = "What" -> "what"
      [] w = "France?" -> "france?"
      [] w = "TITLE:" -> "title:"
      [] w = "TOOL:" -> "tool:"
      [] w = "REASONING:" -> "reasoning:"
      [] w = "Calc" -> "calc"
      [] w = "<!DOCTYPE html" -> "<!doctype html"
      [] w = "\"responseType\":" -> "\"responsetype\":"
      [] w = "\"agentUsed\":" -> "\"agentused\":"
      [] w = "Calculator" -> "calculator"
      [] w = "Timer" -> "timer"
      [] w = "Converter" -> "converter"
      [] w = "Form" -> "form"
      [] w = "Tracker" -> "tracker"
      [] w = "Counter" -> "counter"
      [] w = "Generator" -> "generator"
      [] w = "Interactive Tool" -> "interactive tool"
      [] OTHER -> w

LowerAll(msg) == [i \in 1..Len(msg) |-> toLowerCase(msg[i])]

\* <<a, w>>: the literal a is a proper prefix / suffix / inner part of the
\* message word w (only the pairs that occur between the literals of the
\* patterns below and the words of PhraseLibrary).
ProperPrefix == { <<"kill", "killing">>, <<"harass", "harassment">>,
                  <<"under", "underage">> }
ProperSuffix == { <<"how", "show">>, <<"age", "underage">> }
ProperInfix  ==
    ProperPrefix \cup ProperSuffix
       \cup { <<"app", "application">>, <<"ass", "harassment">>, <<"tool", "tool:">>, <<"tool", "tool-generation">>,
              <<"tool", "interactive tool">>, <<"interactive", "interactive tool">> }

\* Does message word w satisfy one alternative of alts, at a segment position
\* that is the first and/or the last of its segment?
WordFits(w, alts, first, last) ==
    \E a \in alts :
        \/ a = w
        \/ first /\ last /\ <<a, w>> \in ProperInfix
        \/ first /\ ~last /\ <<a, w>> \in ProperSuffix
        \/ last /\ ~first /\ <<a, w>> \in ProperPrefix

\* Segment seg occurs in msg starting at word p.
SegAt(msg, seg, p) ==
    /\ p + Len(seg) - 1 <= Len(msg)
    /\ \A i \in 1..Len(seg) :
          WordFits(msg[p + i - 1], seg[i], i = 1, i = Len(seg))

\* Segments k.. of pat occur in msg from word p on, each after a ".*" gap
\* that holds no newline.
RECURSIVE MatchFrom(_, _, _, _)
MatchFrom(msg, pat, k, p) ==
    IF k > Len(pat) THEN TRUE
    ELSE \E q \in p..Len(msg) :
            /\ \A j \in p..(q - 1) : msg[j] # "\n"
            /\ SegAt(msg, pat[k], q)
            /\ MatchFrom(msg, pat, k + 1, q + Len(pat[k]))

\* RegExp.prototype.test(msg) for an unanchored pattern.
Test(pat, msg) ==
    \E q \in 1..Len(msg) :
        /\ SegAt(msg, pat[1], q)
        /\ MatchFrom(msg, pat, 2, q + Len(pat[1]))

\* patterns.some(p => p.test(msg)) / the for-loop over a pattern array.
AnyTest(patterns, msg) == \E i \in 1..Len(patterns) : Test(patterns[i], msg)

\* String.prototype.includes(keyword) for a keyword of adjacent words.
Includes(msg, keyword) == Test(<<keyword>>, msg)

\* keywords.some(k => msg.includes(k)) for one-word keywords.
IncludesAny(msg, keywords) ==
    \E q \in 1..Len(msg) : WordFits(msg[q], keywords, TRUE, TRUE)

-----------------------------------------------------------------------------
(***************************************************************************)
(* Pattern Rule Set (content-filter.ts).  Each array below holds, in the   *)
(* source's order, the patterns of the source array that can match a       *)
(* message built from PhraseLibrary; a pattern none of whose literals is a *)
(* word of the library never matches and is left out.  The alternations    *)
(* are the source's.                                                       *)
(***************************************************************************)

\* (kill|murder|poison|...|paralyze), the injury verbs shared by the patterns
InjuryVerbs ==
    { "kill", "murder", "poison", "stab", "shoot", "strangle", "choke", "burn",
      "beat", "torture", "break", "injure", "maim", "cripple", "wound",
      "damage", "bruise", "cut", "slash", "slice", "punch", "kick", "slam",
      "crush", "fracture", "disable", "paralyze" }
KidnapVerbs ==
    { "kidnap", "abduct", "snatch", "capture", "seize", "detain", "imprison",
      "confine", "trap" }
\* (kill|murder|poison|stab|shoot|strangle|choke|burn|beat|torture)
MethodVerbs ==
    { "kill", "murder", "poison", "stab", "shoot", "strangle", "choke", "burn",
      "beat", "torture" }
Modals == { "can", "should", "could", "would", "might" }

instructionalPatterns == <<
    \* /teach me to (hurt|harm|kill|attack)/
    << << {"teach"}, {"me"}, {"to"}, {"hurt", "harm", "kill", "attack"} >> >>,
    \* /help me (hurt|harm|kill|attack|fight)/
    << << {"help"}, {"me"}, {"hurt", "harm", "kill", "attack", "fight"} >> >>,
    \* /how (to|do i|can i|should i|could i|would i|might i) (kill|...|trap)/
    << << {"how"}, {"to"}, InjuryVerbs \cup {"hurt", "harm"} \cup KidnapVerbs >> >>,
    << << {"how"}, Modals \cup {"do"}, {"i"},
          InjuryVerbs \cup {"hurt", "harm"} \cup KidnapVerbs >> >>,
    \* /how (can|should|could|would|might) i.*(kill|...|trap)/
    << << {"how"}, Modals, {"i"} >>,
       << InjuryVerbs \cup {"hurt", "harm"} \cup KidnapVerbs >> >>,
    \* /ways to (kill|murder|poison|...|trap)/
    << << {"ways"}, {"to"}, InjuryVerbs \cup KidnapVerbs >> >>,
    \* /show me how to (kill|murder|poison|...|trap)/
    << << {"show"}, {"me"}, {"how"}, {"to"}, InjuryVerbs \cup KidnapVerbs >> >>,
    \* /show me.*(kill|murder|...|trap).*(methods|ways|techniques)/
    << << {"show"}, {"me"} >>, << InjuryVerbs \cup KidnapVerbs >>,
       << {"methods", "ways", "techniques"} >> >>,
    \* /help me (kill|murder|poison|...|trap)/
    << << {"help"}, {"me"}, InjuryVerbs \cup KidnapVerbs >> >>,
    \* /help me think of ways to (kill|murder|hurt|harm|...|paralyze)/
    << << {"help"}, {"me"}, {"think"}, {"of"}, {"ways"}, {"to"},
          InjuryVerbs \cup {"hurt", "harm"} >> >>
>>

planningPatterns == <<
    \* /i want to (hurt|harm|kill|attack)/
    << << {"i"}, {"want"}, {"to"}, {"hurt", "harm", "kill", "attack"} >> >>,
    \* /help me plan.*attack/
    << << {"help"}, {"me"}, {"plan"} >>, << {"attack"} >> >>,
    \* /i want to (kill|murder|poison|stab|shoot|strangle|choke|burn|beat|torture)/
    << << {"i"}, {"want"}, {"to"}, MethodVerbs >> >>,
    \* /want to (kill|murder|poison|stab|shoot|strangle|choke|burn|beat|torture)/
    << << {"want"}, {"to"}, MethodVerbs >> >>,
    \* /(kill|...|torture).*(someone|my.*neighbor|my.*roommate|my.*friend|my.*boss|people)/
    << << MethodVerbs >>, << {"someone", "people"} >> >>,
    << << MethodVerbs >>, << {"my"} >>,
       << {"neighbor", "roommate", "friend", "boss"} >> >>,
    \* /show me how to.*my.*(neighbor|roommate|friend|boss|family)/
    << << {"show"}, {"me"}, {"how"}, {"to"} >>, << {"my"} >>,
       << {"neighbor", "roommate", "friend", "boss", "family"} >> >>,
    \* /help me (hurt|kill|attack).*my.*(neighbor|roommate|friend|boss|family)/
    << << {"help"}, {"me"}, {"hurt", "kill", "attack"} >>, << {"my"} >>,
       << {"neighbor", "roommate", "friend", "boss", "family"} >> >>
>>

glorificationPatterns == <<
    \* /violence is (good|great|awesome)/
    << << {"violence"}, {"is"}, {"good", "great", "awesome"} >> >>,
    \* /killing is (fun|easy|justified)/
    << << {"killing"}, {"is"}, {"fun", "easy", "justified"} >> >>,
    \* /should (hurt|kill|attack).*people/
    << << {"should"}, {"hurt", "kill", "attack"} >>, << {"people"} >> >>
>>

bypassPatterns == <<
    \* /it's for a (story|book|movie|novel)/
    << << {"it's"}, {"for"}, {"a"}, {"story", "book", "movie", "novel"} >> >>,
    \* /writing (code|software)/
    << << {"writing"}, {"code", "software"} >> >>,
    \* /academic research/
    << << {"academic"}, {"research"} >> >>,
    \* /just curious/
    << << {"just"}, {"curious"} >> >>,
    \* /testing your limits/
    << << {"testing"}, {"your"}, {"limits"} >> >>,
    \* /hypothetically/
    << << {"hypothetically"} >> >>,
    \* /for educational purposes/
    << << {"for"}, {"educational"}, {"purposes"} >> >>,
    \* /asking for a friend/
    << << {"asking"}, {"for"}, {"a"}, {"friend"} >> >>
>>

violenceKeywords ==
    { "bomb", "weapon", "explosive", "gun", "knife", "attack", "kill", "hurt",
      "harm", "violence", "murder" }

hasNoExceptionsBypass(messageLower) == AnyTest(bypassPatterns, messageLower)

hasViolenceKeywords(messageLower) == IncludesAny(messageLower, violenceKeywords)

NoViolation == [isViolation |-> FALSE, confidence |-> 95]
Violation(reason, confidence) ==
    [isViolation |-> TRUE, reason |-> reason, confidence |-> confidence]


\* checkViolenceIntent with the bypass framings honoured as an exemption: the
\* behaviour the NO EXCEPTIONS rule forbids.
checkViolenceIntentBypassExempt(messageLower, originalMessage) ==
    IF hasNoExceptionsBypass(messageLower) THEN NoViolation
    ELSE IF AnyTest(instructionalPatterns, messageLower)
    THEN Violation("Instructional content for violence/weapons", 95)
    ELSE IF AnyTest(planningPatterns, messageLower)
    THEN Violation("Planning violence against others", 90)
    ELSE IF AnyTest(glorificationPatterns, messageLower)
    THEN Violation("Glorifying or encouraging violence", 85)
    ELSE NoViolation

\* Violence & Weapons
checkViolenceIntent(messageLower, originalMessage) ==
    IF AnyTest(instructionalPatterns, messageLower)
    THEN Violation("Instructional content for violence/weapons", 95)
    ELSE IF AnyTest(planningPatterns, messageLower)
    THEN Violation("Planning violence against others", 90)
    ELSE IF AnyTest(glorificationPatterns, messageLower)
    THEN Violation("Glorifying or encouraging violence", 85)
    \* bypassing attempts - NO EXCEPTIONS RULE
    ELSE IF hasNoExceptionsBypass(messageLower) /\ hasViolenceKeywords(messageLower)
    THEN Violation("Attempted bypass of violence restrictions", 80)
    ELSE NoViolation

selfHarmInstructions == <<
    \* /how to (cut|hurt|harm) myself/
    << << {"how"}, {"to"}, {"cut", "hurt", "harm"}, {"myself"} >> >>,
    \* /ways to (end|kill) myself/
    << << {"ways"}, {"to"}, {"end", "kill"}, {"myself"} >> >>,
    \* /help me (hurt|harm|kill) myself/
    << << {"help"}, {"me"}, {"hurt", "harm", "kill"}, {"myself"} >> >>,
    \* /how to.*suicide/
    << << {"how"}, {"to"} >>, << {"suicide"} >> >>,
    \* /ways to.*suicide/
    << << {"ways"}, {"to"} >>, << {"suicide"} >> >>
>>

directSelfHarmIntent == <<
    \* /i want to (kill|hurt|harm|cut) myself/
    << << {"i"}, {"want"}, {"to"}, {"kill", "hurt", "harm", "cut"}, {"myself"} >> >>,
    \* /want to kill myself/
    << << {"want"}, {"to"}, {"kill"}, {"myself"} >> >>,
    \* /i feel suicidal/
    << << {"i"}, {"feel"}, {"suicidal"} >> >>,
    \* /feel.*suicidal.*thoughts/
    << << {"feel"} >>, << {"suicidal"} >>, << {"thoughts"} >> >>
>>

encouragementPatterns == <<
    \* /you should (hurt|kill) yourself/
    << << {"you"}, {"should"}, {"hurt", "kill"}, {"yourself"} >> >>,
    \* /suicide is the answer/
    << << {"suicide"}, {"is"}, {"the"}, {"answer"} >> >>
>>

\* a self-harm evaluator that tries the group of highest confidence first
checkSelfHarmIntentHighestFirst(messageLower, originalMessage) ==
    IF AnyTest(directSelfHarmIntent, messageLower)
    THEN Violation("Direct self-harm intent statement", 98)
    ELSE IF AnyTest(selfHarmInstructions, messageLower)
    THEN Violation("Instructions for self-harm", 95)
    ELSE IF AnyTest(encouragementPatterns, messageLower)
    THEN Violation("Encouraging self-harm", 90)
    ELSE NoViolation

\* Self-Harm
checkSelfHarmIntent(messageLower, originalMessage) ==
    IF AnyTest(selfHarmInstructions, messageLower)
    THEN Violation("Instructions for self-harm", 95)
    ELSE IF AnyTest(directSelfHarmIntent, messageLower)
    THEN Violation("Direct self-harm intent statement", 98)
    ELSE IF AnyTest(encouragementPatterns, messageLower)
    THEN Violation("Encouraging self-harm", 90)
    ELSE NoViolation

\* allPatterns of checkChildSafetyIntent (grooming ... ageExploitation)
childSafetyPatterns == <<
    \* /how to.*approach.*child/
    << << {"how"}, {"to"} >>, << {"approach"} >>, << {"child"} >> >>,
    \* /child.*abuse/
    << << {"child"} >>, << {"abuse"} >> >>,
    \* /get.*child.*alone/
    << << {"get"} >>, << {"child"} >>, << {"alone"} >> >>
>>

criticalKeywords ==
    { "groom", "molest", "pedophile", "loli", "shota", "cp", "csam", "kiddie",
      "preteen", "jailbait", "underage" }   \* and the two-word 'child porn'

\* Child Safety
checkChildSafetyIntent(messageLower, originalMessage) ==
    IF AnyTest(childSafetyPatterns, messageLower)
    THEN Violation("Content endangering child safety - prohibited contact or exploitation", 95)
    ELSE IF IncludesAny(messageLower, criticalKeywords)
              \/ Includes(messageLower, << {"child"}, {"porn"} >>)
    THEN Violation("Content endangering child safety - prohibited terminology", 98)
    ELSE NoViolation

drugManufacturingPatterns == <<
    \* /how to (make|cook|manufacture).*(meth|cocaine|heroin|fentanyl)/
    << << {"how"}, {"to"}, {"make", "cook", "manufacture"} >>,
       << {"meth", "cocaine", "heroin", "fentanyl"} >> >>,
    \* /help me.*synthesize/
    << << {"help"}, {"me"} >>, << {"synthesize"} >> >>
>>

fraudPatterns == <<
    \* /how to.*steal.*identity/
    << << {"how"}, {"to"} >>, << {"steal"} >>, << {"identity"} >> >>,
    \* /help me.*scam.*people/
    << << {"help"}, {"me"} >>, << {"scam"} >>, << {"people"} >> >>
>>

hackingPatterns == <<
    \* /how to.*hack.*into/
    << << {"how"}, {"to"} >>, << {"hack"} >>, << {"into"} >> >>,
    \* /help me.*steal.*data/
    << << {"help"}, {"me"} >>, << {"steal"} >>, << {"data"} >> >>
>>

\* Illegal Activities
checkIllegalActivitiesIntent(messageLower, originalMessage) ==
    IF AnyTest(drugManufacturingPatterns, messageLower)
    THEN Violation("Instructions for illegal drug manufacturing", 95)
    ELSE IF AnyTest(fraudPatterns, messageLower)
    THEN Violation("Instructions for fraud or financial crimes", 95)
    ELSE IF AnyTest(hackingPatterns, messageLower)
    THEN Violation("Instructions for hacking or unauthorized access", 90)
    ELSE NoViolation

doxxingPatterns == <<
    \* /help me.*find.*personal.*information/
    << << {"help"}, {"me"} >>, << {"find"} >>, << {"personal"} >>,
       << {"information"} >> >>,
    \* /how to.*doxx.*someone/
    << << {"how"}, {"to"} >>, << {"doxx"} >>, << {"someone"} >> >>
>>

surveillancePatterns == <<
    \* /how to.*spy.*on/
    << << {"how"}, {"to"} >>, << {"spy"} >>, << {"on"} >> >>,
    \* /help me.*watch.*without.*permission/
    << << {"help"}, {"me"} >>, << {"watch"} >>, << {"without"} >>,
       << {"permission"} >> >>
>>

\* Privacy Violations
checkPrivacyViolationsIntent(messageLower, originalMessage) ==
    IF AnyTest(doxxingPatterns, messageLower)
    THEN Violation("Instructions for doxxing or privacy violations", 95)
    ELSE IF AnyTest(surveillancePatterns, messageLower)
    THEN Violation("Instructions for unauthorized surveillance", 90)
    ELSE NoViolation

harassmentPatterns == <<
    \* /how to.*bully/
    << << {"how"}, {"to"} >>, << {"bully"} >> >>,
    \* /teach me.*harass/
    << << {"teach"}, {"me"} >>, << {"harass"} >> >>,
    \* /help me.*intimidate/
    << << {"help"}, {"me"} >>, << {"intimidate"} >> >>,
    \* /ways to.*threaten/
    << << {"ways"}, {"to"} >>, << {"threaten"} >> >>
>>

organizedHarassmentPatterns == <<
    \* /help me.*organize.*campaign.*against/
    << << {"help"}, {"me"} >>, << {"organize"} >>, << {"campaign"} >>,
       << {"against"} >> >>,
    \* /coordinate.*harassment/
    << << {"coordinate"} >>, << {"harassment"} >> >>
>>

\* declared in checkHateSpeechIntent, and never tested by it
dehumanizingPatterns == <<
    \* /all.*\[group\].*are.*\[slur\]/
    << << {"all"} >>, << {"[group]"} >>, << {"are"} >>, << {"[slur]"} >> >>,
    \* /\[group\].*don't.*deserve/
    << << {"[group]"} >>, << {"don't"} >>, << {"deserve"} >> >>,
    \* /we should.*eliminate.*\[group\]/
    << << {"we"}, {"should"} >>, << {"eliminate"} >>, << {"[group]"} >> >>
>>

\* Hate Speech/Harassment
checkHateSpeechIntent(messageLower, originalMessage) ==
    IF AnyTest(harassmentPatterns, messageLower)
    THEN Violation("Instructions for harassment or bullying", 95)
    ELSE IF AnyTest(organizedHarassmentPatterns, messageLower)
    THEN Violation("Organizing harassment campaigns", 90)
    ELSE NoViolation

\* allPatterns of checkAdultContentIntent (pornography ... euphemistic)
adultContentPatterns == <<
    \* /show.*me.*porn/
    << << {"show"} >>, << {"me"} >>, << {"porn"} >> >>,
    \* /find.*porn/
    << << {"find"} >>, << {"porn"} >> >>,
    \* /pornographic/
    << << {"pornographic"} >> >>,
    \* /how.*to.*have.*sex/
    << << {"how"} >>, << {"to"} >>, << {"have"} >>, << {"sex"} >> >>
>>

explicitKeywords ==
    { "porn", "porno", "pornography", "xxx", "nsfw", "nude", "naked", "dick",
      "cock", "pussy", "vagina", "penis", "tits", "boobs", "ass", "anal",
      "blowjob", "handjob", "cumshot", "orgasm", "masturbate", "finger",
      "dildo", "vibrator" }   \* and the two-word 'jerk off'

\* 'show me', 'give me', 'want to see', 'generate', 'create', 'make me', ...
sexualContext == <<
    << {"show"}, {"me"} >>, << {"give"}, {"me"} >>, << {"want"}, {"to"}, {"see"} >>,
    << {"generate"} >>, << {"create"} >>, << {"make"}, {"me"} >>, << {"describe"} >>,
    << {"tell"}, {"me"}, {"about"} >>, << {"roleplay"} >>, << {"pretend"} >>,
    << {"simulate"} >>
>>

inappropriateContextKeywords ==
    { "sexy", "horny", "aroused", "wet", "hard", "erect", "climax" }
    \* and the two-word 'turned on'

\* 'make me', 'get me', 'help me get', 'want to be', 'feeling', 'getting'
sexualCombinations == <<
    << {"make"}, {"me"} >>, << {"get"}, {"me"} >>, << {"help"}, {"me"}, {"get"} >>,
    << {"want"}, {"to"}, {"be"} >>, << {"feeling"} >>, << {"getting"} >>
>>

\* Adult Content/Pornography
checkAdultContentIntent(messageLower, originalMessage) ==
    IF AnyTest(adultContentPatterns, messageLower)
    THEN Violation("Adult/sexual content request", 90)
    ELSE IF /\ \/ IncludesAny(messageLower, explicitKeywords)
               \/ Includes(messageLower, << {"jerk"}, {"off"} >>)
            /\ \E i \in 1..Len(sexualContext) : Includes(messageLower, sexualContext[i])
    THEN Violation("Explicit sexual content request with inappropriate context", 95)
    ELSE IF /\ \/ IncludesAny(messageLower, inappropriateContextKeywords)
               \/ Includes(messageLower, << {"turned"}, {"on"} >>)
            /\ \E i \in 1..Len(sexualCombinations) :
                   Includes(messageLower, sexualCombinations[i])
    THEN Violation("Sexual content with inappropriate context", 85)
    ELSE NoViolation

-----------------------------------------------------------------------------
(***************************************************************************)
(* checkContent                                                            *)
(***************************************************************************)

\* A soft denial: the violation result without radio silence.
createSoftViolationResult(violationType, reason, confidence) ==
    [ isAllowed |-> FALSE, violationType |-> violationType, reason |-> reason,
      confidence |-> confidence, radioSilence |-> FALSE ]

\* Create violation result with radio silence.
createViolationResult(violationType, reason, confidence) ==
    [ isAllowed |-> FALSE, violationType |-> violationType, reason |-> reason,
      confidence |-> confidence, radioSilence |-> TRUE ]

\* An allowed result that carries a reason.
AllowedResultWithReason ==
    [ isAllowed |-> TRUE, reason |-> "Content passed safety checks",
      confidence |-> 95, radioSilence |-> FALSE ]

\* Content is safe to process
AllowedResult == [ isAllowed |-> TRUE, confidence |-> 95, radioSilence |-> FALSE ]

\* An order of evaluation that puts hate-speech first.
CategoryOrderHateFirst ==
    << "hate-speech", "violence", "self-harm", "child-safety", "illegal-activities",
       "privacy-violations", "adult-content" >>

\* The order in which checkContent calls the category evaluators.
CategoryOrder ==
    << "violence", "self-harm", "child-safety", "illegal-activities",
       "privacy-violations", "hate-speech", "adult-content" >>

\* this.check<Category>Intent(messageLower, userMessage)
Evaluate(category, messageLower, userMessage) ==
    CASE category = "violence" -> checkViolenceIntent(messageLower, userMessage)
      [] category = "self-harm" -> checkSelfHarmIntent(messageLower, userMessage)
      [] category = "child-safety" -> checkChildSafetyIntent(messageLower, userMessage)
      [] category = "illegal-activities" ->
             checkIllegalActivitiesIntent(messageLower, userMessage)
      [] category = "privacy-violations" ->
             checkPrivacyViolationsIntent(messageLower, userMessage)
      [] category = "hate-speech" -> checkHateSpeechIntent(messageLower, userMessage)
      [] category = "adult-content" -> checkAdultContentIntent(messageLower, userMessage)

\* the right-hand side of  check.reason || '<default>'
DefaultReason(category) ==
    CASE category = "violence" -> "Violence-related content detected"
      [] category = "self-harm" -> "Self-harm content detected"
      [] category = "child-safety" -> "Child safety violation detected"
      [] category = "illegal-activities" -> "Illegal activities content detected"
      [] category = "privacy-violations" -> "Privacy violation detected"
      [] category = "hate-speech" -> "Hate speech detected"
      [] category = "adult-content" -> "Adult content detected"

\* the logger entries of checkContent and createViolationResult
InfoInitiated == [level |-> "info", msg |-> "Safety check initiated"]
DebugPassed == [level |-> "debug", msg |-> "Content passed safety checks"]
\* a violation that is logged as a pass
WarnViolationUnlogged(violationType) ==
    [ level |-> "debug", msg |-> "Content passed safety checks" ]
WarnViolation(violationType) ==
    [ level |-> "warn", msg |-> "Safety violation detected",
      violationType |-> violationType ]

\* The category checks of checkContent from the k-th on: the evaluator is
\* called, and a violation returns at once.
RECURSIVE checkFrom(_, _, _, _)
checkFrom(k, messageLower, userMessage, called) ==
    IF k > Len(CategoryOrder)
    THEN [ result |-> AllowedResult, invoked |-> called,
           logged |-> << InfoInitiated, DebugPassed >> ]
    ELSE LET category == CategoryOrder[k]
             check == Evaluate(category, messageLower, userMessage)
         IN  IF check.isViolation
             THEN [ result |-> createViolationResult(category,
                                  IF check.reason = "" THEN DefaultReason(category)
                                                       ELSE check.reason,
                                  check.confidence),
                    invoked |-> Append(called, category),
                    logged |-> << InfoInitiated, WarnViolation(category) >> ]
             ELSE checkFrom(k + 1, messageLower, userMessage, Append(called, category))

\* Primary safety check: the verdict, with the evaluators called and the log
\* entries written on the way.
checkContent(userMessage) == checkFrom(1, LowerAll(userMessage), userMessage, << >>)

-----------------------------------------------------------------------------
(***************************************************************************)
(* Inputs of the content filter                                            *)
(***************************************************************************)

PhraseLibrary == <<
    << "how", "can", "I", "kill" >>,
    << "i", "want", "to", "kill" >>,
    << "killing", "is", "fun" >>,
    << "it's", "for", "a", "story" >>,
    << "hypothetically" >>,
    << "knife" >>,
    << "KILL" >>,
    << "my", "neighbor" >>,
    << "help", "me" >>,
    << "how", "to", "bully" >>,
    << "coordinate", "harassment" >>,
    << "[group]", "don't", "deserve" >>,
    << "I", "feel", "suicidal" >>,
    << "ways", "to", "end", "myself" >>,
    << "suicide", "is", "the", "answer" >>,
    << "underage" >>,
    << "how", "to", "cook", "meth" >>,
    << "how", "to", "spy", "on" >>,
    << "child", "abuse" >>,
    << "show", "me" >>,
    << "porn" >>,
    << "What", "is", "the", "capital", "of", "France?" >>,
    << "\t" >>,
    << "\n" >>
>>

\* a message is at most MaxPhrases phrases
MaxPhrases == 2

RECURSIVE Concat(_)
Concat(ps) == IF ps = << >> THEN << >> ELSE PhraseLibrary[Head(ps)] \o Concat(Tail(ps))

Messages ==
    { Concat(ps) : ps \in UNION { [1..n -> 1..Len(PhraseLibrary)] : n \in 0..MaxPhrases } }

-----------------------------------------------------------------------------
(***************************************************************************)
(* The content filter as a state machine: a call of checkContent           *)
(***************************************************************************)

NoResult == [none |-> TRUE]

OthersIdle ==
    /\ infer = [state |-> "idle"]
    /\ agents = [state |-> "idle"]
    /\ pool = [state |-> "idle"]

ParserIdle ==
    /\ ptext = << >>
    /\ pagent = "noah"
    /\ pstate = "idle"
    /\ presult = NoResult
    /\ attempted = << >>

NoReply == [none |-> TRUE]

ChatIdle ==
    /\ request = [handler |-> "none"]
    /\ cpc = "idle"
    /\ safety = NoVerdict
    /\ local = << >>
    /\ calls = << >>
    /\ reply = NoReply

FilterInit ==
    /\ message \in Messages
    /\ fstate = "ready"
    /\ verdict = NoVerdict
    /\ invoked = << >>
    /\ logged = << >>
    /\ ParserIdle
    /\ ChatIdle
    /\ past = << >>
    /\ OthersIdle

CheckContent ==
    /\ fstate = "ready"
    /\ LET r == checkContent(message)
       IN  /\ verdict' = r.result
           /\ invoked' = r.invoked
           /\ logged' = r.logged
    /\ fstate' = "returned"
    /\ UNCHANGED << message, parserVars, chatVars, past, infer, agents, pool >>

FilterNext == CheckContent

FilterSpec == FilterInit /\ [][FilterNext]_vars

-----------------------------------------------------------------------------
(***************************************************************************)
(* Properties of the content filter (FilterSpec)                           *)
(***************************************************************************)

\* the categories, in the order of evaluation the specification states
SevenCategories ==
    << "violence", "self-harm", "child-safety", "illegal-activities",
       "privacy-violations", "hate-speech", "adult-content" >>

\* the positions of SevenCategories whose evaluator reports a violation for msg
Hits(msg) ==
    { k \in 1..Len(SevenCategories) :
          Evaluate(SevenCategories[k], LowerAll(msg), msg).isViolation }

Min(S) == CHOOSE x \in S : \A y \in S : x <= y

\* C1: checkContent calls the evaluators in the order violence, self-harm,
\* child-safety, illegal-activities, privacy-violations, hate-speech,
\* adult-content; the verdict names the earliest category whose evaluator
\* reports a violation and the evaluators after it are not called.  A message
\* that hits both a violence and a hate-speech pattern is 'violence'.
C1_FirstViolationWins ==
    fstate = "returned" =>
        IF Hits(message) = {}
        THEN invoked = SevenCategories
        ELSE /\ ~verdict.isAllowed
             /\ verdict.violationType = SevenCategories[Min(Hits(message))]
             /\ invoked = SubSeq(SevenCategories, 1, Min(Hits(message)))

\* a returned call for a message hitting both violence and hate-speech
C1_Witness ==
    /\ fstate = "returned"
    /\ {1, 6} \subseteq Hits(message)
    /\ verdict.violationType = "violence"
    /\ invoked = << "violence" >>

\* the phrases of the message that hasNoExceptionsBypass recognises
BypassPhrases == { << "it's", "for", "a", "story" >>, << "hypothetically" >> }

Denied(msg) == ~checkContent(msg).result.isAllowed

\* C2: a message holding a bypass phrase and a violence keyword is denied;
\* and a denied message stays denied when a bypass phrase is put before or
\* after it.
C2_NoExceptions ==
    fstate = "returned" =>
        /\ ( hasNoExceptionsBypass(LowerAll(message))
               /\ hasViolenceKeywords(LowerAll(message)) ) => ~verdict.isAllowed
        /\ \A b \in BypassPhrases :
              LET n == Len(message)
                  l == Len(b)
              IN  /\ ( n >= l /\ SubSeq(message, n - l + 1, n) = b
                         /\ Denied(SubSeq(message, 1, n - l)) ) => ~verdict.isAllowed
                  /\ ( n >= l /\ SubSeq(message, 1, l) = b
                         /\ Denied(SubSeq(message, l + 1, n)) ) => ~verdict.isAllowed

\* a message denied by the bypass rule alone: a bypass phrase and a violence
\* keyword, and no violence pattern
C2_Witness ==
    /\ fstate = "returned"
    /\ hasNoExceptionsBypass(LowerAll(message))
    /\ hasViolenceKeywords(LowerAll(message))
    /\ ~verdict.isAllowed
    /\ verdict.reason = "Attempted bypass of violence restrictions"

\* C3: in every verdict radioSilence is the negation of isAllowed; a denying
\* verdict has one of the seven category names as violationType, a non-empty
\* reason and a confidence within [0, 1].
C3_VerdictShape ==
    fstate = "returned" =>
        /\ verdict.radioSilence = ~verdict.isAllowed
        /\ ~verdict.isAllowed =>
              /\ verdict.violationType \in
                    { "violence", "self-harm", "child-safety", "illegal-activities",
                      "privacy-violations", "hate-speech", "adult-content" }
              /\ verdict.reason # ""
              /\ verdict.confidence \in 0..100

\* a denying verdict of a category other than the first
C3_Witness ==
    /\ fstate = "returned"
    /\ ~verdict.isAllowed
    /\ verdict.radioSilence
    /\ verdict.violationType = "adult-content"

WhitespaceOnly(msg) == \A i \in 1..Len(msg) : msg[i] \in { "\t", "\n" }

\* C4: when no evaluator reports a violation the verdict is exactly
\* {isAllowed: true, confidence: 0.95, radioSilence: false}, with no other
\* field; so it is for the empty and the whitespace-only messages; and every
\* verdict is either that one or a denial.
C4_AllowedVerdict ==
    fstate = "returned" =>
        /\ Hits(message) = {} =>
              verdict = [ isAllowed |-> TRUE, confidence |-> 95, radioSilence |-> FALSE ]
        /\ WhitespaceOnly(message) => Hits(message) = {}
        /\ \/ verdict = [ isAllowed |-> TRUE, confidence |-> 95, radioSilence |-> FALSE ]
           \/ verdict.isAllowed = FALSE

\* the verdict of a whitespace-only message
C4_Witness ==
    /\ fstate = "returned"
    /\ message = << "\t", "\n" >>
    /\ verdict.isAllowed
    /\ DOMAIN verdict = { "isAllowed", "confidence", "radioSilence" }

-----------------------------------------------------------------------------
(***************************************************************************)
(* StructuredResponseParser (src/unnamed/part_003) and the validators of   *)
(* structured-response/types.ts.                                           *)
(*                                                                         *)
(* A string is a sequence of tokens [s, n]: s is the token's characters    *)
(* and n their number.  Tokens are concatenated as they stand; white       *)
(* space is a token of its own.  Filler(n) is n letters of plain prose.    *)
(* The code fence of Markdown, three backquotes, is written ~~~.           *)
(* A JavaScript value is a record tagged with its kind.                    *)
(***************************************************************************)

W(s) == [s |-> s, n |-> Len(s)]
Filler(n) == [s |-> "z", n |-> n]

IsWs(tok) == tok.s \in { " ", "\t", "\n", "\n\n" }
HasNewline(tok) == tok.s \in { "\n", "\n\n" }

\* String.prototype.length
RECURSIVE TextLen(_)
TextLen(x) == IF x = << >> THEN 0 ELSE Head(x).n + TextLen(Tail(x))

\* String.prototype.trim
trim(x) ==
    LET S == { i \in 1..Len(x) : ~IsWs(x[i]) }
    IN  IF S = {} THEN << >>
        ELSE SubSeq(x, Min(S), CHOOSE j \in S : \A i \in S : i <= j)

\* String.prototype.toLowerCase on a string of tokens
LowerText(x) == [i \in 1..Len(x) |-> [s |-> toLowerCase(x[i].s), n |-> x[i].n]]

\* x.includes(k) for a keyword k of one token, and for a set of them
TextIncludes(x, k) == \E i \in 1..Len(x) : WordFits(x[i].s, {k}, TRUE, TRUE)
TextIncludesAny(x, ks) == \E i \in 1..Len(x) : WordFits(x[i].s, ks, TRUE, TRUE)

\* the first position from p on that holds no white space
SkipWs(x, p) ==
    LET S == { q \in p..Len(x) : ~IsWs(x[q]) }
    IN  IF S = {} THEN Len(x) + 1 ELSE Min(S)

\* JavaScript values
Undefined == [t |-> "undefined"]
Null == [t |-> "null"]
Str(x) == [t |-> "string", x |-> x]
Lit(s) == Str(<< W(s) >>)
Num(n) == [t |-> "number", n |-> n]
Obj(o) == [t |-> "object", o |-> o]

typeof(v) ==
    CASE v.t = "null" -> "object"
      [] OTHER -> v.t

\* v.k
Get(v, k) == IF v.t = "object" /\ k \in DOMAIN v.o THEN v.o[k] ELSE Undefined

\* the value in a condition
Truthy(v) ==
    CASE v.t \in { "undefined", "null" } -> FALSE
      [] v.t = "string" -> v.x # << >>
      [] v.t = "number" -> v.n # 0
      [] OTHER -> TRUE

\* delete o.k
Delete(v, k) == Obj([ j \in DOMAIN v.o \ {k} |-> v.o[j] ])

\* JSON.parse: the tokens of JSON text
KeyTokens ==
    { "\"content\":", "\"responseType\":", "\"confidence\":", "\"agentUsed\":",
      "\"artifact\":", "\"title\":", "\"type\":" }
KeyOf(s) ==
    CASE s = "\"content\":" -> "content"
      [] s = "\"responseType\":" -> "responseType"
      [] s = "\"confidence\":" -> "confidence"
      [] s = "\"agentUsed\":" -> "agentUsed"
      [] s = "\"artifact\":" -> "artifact"
      [] s = "\"title\":" -> "title"
      [] s = "\"type\":" -> "type"
\* number literals, in hundredths
NumberOf(s) ==
    CASE s = "0.9" -> 90
      [] s = "1.5" -> 150
      [] s = "-0.5" -> -50
NumberTokens == { "0.9", "1.5", "-0.5" }

Fail == [ok |-> FALSE]

\* a string literal opened by the quote at p: it runs to the next quote, and
\* holds no control character
ParseString(x, p) ==
    LET Q == { q \in (p + 1)..Len(x) : x[q].s = "\"" \/ x[q].s \in KeyTokens }
    IN  IF Q = {} THEN Fail
        ELSE LET q == Min(Q)
             IN  IF x[q].s # "\"" \/ \E i \in (p + 1)..(q - 1) : IsWs(x[i]) /\ x[i].s # " "
                 THEN Fail
                 ELSE [ok |-> TRUE, v |-> Str(SubSeq(x, p + 1, q - 1)), p |-> q + 1]

RECURSIVE ParseValue(_, _), ParseMembers(_, _, _)
\* the members of an object from p on, after those of acc; a later
\* duplicate of a key replaces the earlier one
ParseMembers(x, p, acc) ==
    LET q == SkipWs(x, p)
    IN  IF q > Len(x) \/ x[q].s \notin KeyTokens THEN Fail
        ELSE LET r == ParseValue(x, SkipWs(x, q + 1))
             IN  IF ~r.ok THEN Fail
                 ELSE LET acc2 == (KeyOf(x[q].s) :> r.v) @@ acc
                          e == SkipWs(x, r.p)
                      IN  IF e > Len(x) THEN Fail
                          ELSE IF x[e].s = "," THEN ParseMembers(x, e + 1, acc2)
                          ELSE IF x[e].s = "}"
                               THEN [ok |-> TRUE, v |-> Obj(acc2), p |-> e + 1]
                          ELSE Fail

ParseValue(x, p) ==
    IF p > Len(x) THEN Fail
    ELSE IF x[p].s = "\"" THEN ParseString(x, p)
    ELSE IF x[p].s \in NumberTokens
         THEN [ok |-> TRUE, v |-> Num(NumberOf(x[p].s)), p |-> p + 1]
    ELSE IF x[p].s = "null" THEN [ok |-> TRUE, v |-> Null, p |-> p + 1]
    ELSE IF x[p].s = "{"
         THEN LET q == SkipWs(x, p + 1)
              IN  IF q <= Len(x) /\ x[q].s = "}"
                  THEN [ok |-> TRUE, v |-> Obj(<< >>), p |-> q + 1]
                  ELSE ParseMembers(x, p + 1, << >>)
    ELSE Fail

\* JSON.parse(x): a value, or not ok where JSON.parse throws a SyntaxError
JSONparse(x) ==
    LET r == ParseValue(x, SkipWs(x, 1))
    IN  IF r.ok /\ SkipWs(x, r.p) > Len(x) THEN r ELSE Fail

\* a shape check that takes any string as agentUsed
isValidStructuredResponseAnyAgent(response) ==
    /\ typeof(response) = "object"
    /\ typeof(Get(response, "content")) = "string"
    /\ typeof(Get(response, "responseType")) = "string"
    /\ typeof(Get(response, "confidence")) = "number"
    /\ typeof(Get(response, "agentUsed")) = "string"
    /\ Get(response, "confidence").n >= 0 /\ Get(response, "confidence").n <= 100
    /\ Get(response, "responseType") \in
          { Lit("conversation"), Lit("tool-generation"), Lit("research"), Lit("analysis") }

\* a shape check that takes any number as confidence
isValidStructuredResponseAnyConfidence(response) ==
    /\ typeof(response) = "object"
    /\ typeof(Get(response, "content")) = "string"
    /\ typeof(Get(response, "responseType")) = "string"
    /\ typeof(Get(response, "confidence")) = "number"
    /\ typeof(Get(response, "agentUsed")) = "string"
    /\ Get(response, "responseType") \in
          { Lit("conversation"), Lit("tool-generation"), Lit("research"), Lit("analysis") }
    /\ Get(response, "agentUsed") \in { Lit("noah"), Lit("wanderer"), Lit("tinkerer") }

\* types.ts
isValidStructuredResponse(response) ==
    /\ typeof(response) = "object"
    /\ typeof(Get(response, "content")) = "string"
    /\ typeof(Get(response, "responseType")) = "string"
    /\ typeof(Get(response, "confidence")) = "number"
    /\ typeof(Get(response, "agentUsed")) = "string"
    /\ Get(response, "confidence").n >= 0 /\ Get(response, "confidence").n <= 100
    /\ Get(response, "responseType") \in
          { Lit("conversation"), Lit("tool-generation"), Lit("research"), Lit("analysis") }
    /\ Get(response, "agentUsed") \in { Lit("noah"), Lit("wanderer"), Lit("tinkerer") }

isValidArtifact(artifact) ==
    /\ typeof(artifact) = "object"
    /\ typeof(Get(artifact, "title")) = "string"
    /\ typeof(Get(artifact, "content")) = "string"
    /\ typeof(Get(artifact, "type")) = "string"
    /\ TextLen(Get(artifact, "title").x) > 0
    /\ TextLen(Get(artifact, "content").x) > 0
    /\ Get(artifact, "type") \in
          { Lit("calculator"), Lit("component"), Lit("utility"), Lit("dashboard"),
            Lit("app"), Lit("tool"), Lit("other") }

\* a ParseResult, with the logger entries written while it was made
Failure == [success |-> FALSE, log |-> << >>]
Success(response) == [success |-> TRUE, response |-> response, log |-> << >>]

\* Parse pure structured JSON response
parseStructuredJSON(content, agentUsed) ==
    LET trimmed == trim(content)
    IN  IF trimmed = << >> \/ trimmed[1].s # "{" \/ trimmed[Len(trimmed)].s # "}"
        THEN Failure
        ELSE LET r == JSONparse(trimmed)
             IN  IF ~r.ok THEN Failure      \* catch (error)
                 ELSE IF isValidStructuredResponse(r.v)
                      THEN IF Truthy(Get(r.v, "artifact"))
                                /\ ~isValidArtifact(Get(r.v, "artifact"))
                           THEN [ Success(Delete(r.v, "artifact")) EXCEPT !.log =
                                    << [level |-> "warn", msg |->
                                        "Invalid artifact in structured response, removing artifact"] >> ]
                           ELSE Success(r.v)
                 ELSE Failure

Max(S) == CHOOSE x \in S : \A y \in S : y <= x

\* tokens that begin with a code fence
FenceStarts == { "~~~", "~~~html", "~~~json" }

\* content.match(/~~~json\s*(\{[\s\S]*?\})\s*~~~/): the captured group, or
\* << >> when there is no match
jsonMatch(x) ==
    LET End(b) == { j \in (b + 1)..Len(x) :
                       /\ x[j].s = "}"
                       /\ SkipWs(x, j + 1) <= Len(x)
                       /\ x[SkipWs(x, j + 1)].s \in FenceStarts }
        I == { i \in 1..Len(x) :
                  /\ x[i].s = "~~~json"
                  /\ SkipWs(x, i + 1) <= Len(x)
                  /\ x[SkipWs(x, i + 1)].s = "{"
                  /\ End(SkipWs(x, i + 1)) # {} }
    IN  IF I = {} THEN << >>
        ELSE SubSeq(x, SkipWs(x, Min(I) + 1), Min(End(SkipWs(x, Min(I) + 1))))

\* content.match(/(\{[\s\S]*"content"[\s\S]*?\})/): from the first brace to
\* the first closing brace after the last "content" that has one
rawJsonMatch(x) ==
    LET A == { a \in 1..Len(x) : x[a].s = "{" }
        Close(c) == { d \in (c + 1)..Len(x) : x[d].s = "}" }
        C == IF A = {} THEN {}
             ELSE { c \in (Min(A) + 1)..Len(x) :
                       x[c].s = "\"content\":" /\ Close(c) # {} }
    IN  IF C = {} THEN << >>
        ELSE SubSeq(x, Min(A), Min(Close(Max(C))))

\* Extract structured JSON from mixed content (e.g., explanation + JSON)
extractStructuredFromMixed(content, agentUsed) ==
    IF jsonMatch(content) # << >>
    THEN parseStructuredJSON(jsonMatch(content), agentUsed)
    ELSE IF rawJsonMatch(content) # << >>
    THEN parseStructuredJSON(rawJsonMatch(content), agentUsed)
    ELSE Failure

\* an inference of the type that reads title and content as one text
inferToolTypeCombined(title, content) ==
    LET combined == LowerText(title \o << W(" ") >> \o content)
    IN  IF TextIncludes(combined, "calculator") THEN "calculator"
        ELSE IF TextIncludes(combined, "dashboard") THEN "dashboard"
        ELSE IF TextIncludes(combined, "component") THEN "component"
        ELSE IF TextIncludesAny(combined, { "app", "application" }) THEN "app"
        ELSE IF TextIncludes(combined, "utility") THEN "utility"
        ELSE IF TextIncludes(combined, "tool") THEN "tool"
        ELSE "other"

\* Infer tool type from title and content
inferToolType(title, content) ==
    LET titleLower == LowerText(title)
        contentLower == LowerText(content)
    IN  IF TextIncludes(titleLower, "calculator") \/ TextIncludes(contentLower, "calculate")
        THEN "calculator"
        ELSE IF TextIncludes(titleLower, "dashboard") \/ TextIncludes(contentLower, "dashboard")
        THEN "dashboard"
        ELSE IF TextIncludes(titleLower, "component") \/ TextIncludes(contentLower, "component")
        THEN "component"
        ELSE IF TextIncludes(titleLower, "app") \/ TextIncludes(contentLower, "application")
        THEN "app"
        ELSE IF TextIncludes(titleLower, "utility") \/ TextIncludes(contentLower, "utility")
        THEN "utility"
        ELSE IF TextIncludes(titleLower, "tool") THEN "tool"
        ELSE "other"

\* Infer tool category from title and content
inferToolCategory(title, content) ==
    LET combined == LowerText(title \o << W(" ") >> \o content)
    IN  IF TextIncludesAny(combined, { "interactive", "click", "button" }) THEN "interactive"
        ELSE IF TextIncludesAny(combined, { "chart", "graph", "visualization" })
        THEN "visualization"
        ELSE IF TextIncludesAny(combined, { "game", "play" }) THEN "game"
        ELSE IF TextIncludesAny(combined, { "productivity", "organize" }) THEN "productivity"
        ELSE IF TextIncludesAny(combined, { "data", "process" }) THEN "data-processing"
        ELSE "display"

\* /for\s*\(|while\s*\(|switch\s*\(|try\s*\{|catch\s*\(/i
hasComplexLogic(x) ==
    \E i \in 1..Len(x) :
        /\ SkipWs(x, i + 1) <= Len(x)
        /\ \/ /\ WordFits(toLowerCase(x[i].s), { "for", "while", "switch", "catch" },
                          TRUE, FALSE)
              /\ x[SkipWs(x, i + 1)].s = "("
           \/ /\ WordFits(toLowerCase(x[i].s), { "try" }, TRUE, FALSE)
              /\ x[SkipWs(x, i + 1)].s = "{"

\* an inference of the complexity that looks at the length first
inferComplexityByLength(content) ==
    LET length == TextLen(content)
    IN  IF length > 3000 THEN "advanced"
        ELSE IF length > 1500 THEN "complex"
        ELSE IF length > 500 THEN "moderate"
        ELSE IF TextIncludesAny(LowerText(content),
                                { "class", "interface", "async", "await", "fetch", "api" })
        THEN "advanced"
        ELSE IF hasComplexLogic(content) THEN "complex"
        ELSE "simple"

\* Infer complexity from content length and patterns
inferComplexity(content) ==
    LET length == TextLen(content)
        hasAdvancedPatterns ==
            TextIncludesAny(LowerText(content),
                            { "class", "interface", "async", "await", "fetch", "api" })
    IN  IF length > 3000 \/ hasAdvancedPatterns THEN "advanced"
        ELSE IF length > 1500 \/ hasComplexLogic(content) THEN "complex"
        ELSE IF length > 500 THEN "moderate"
        ELSE "simple"

\* /<!DOCTYPE html|<html|<head|<body|<div|<input|<button/i
HtmlMarkers == { "<!doctype html", "<html", "<head", "<body", "<div", "<input", "<button" }

\* the first position after i that holds token s, given there is one
NextOf(x, i, s) == Min({ j \in (i + 1)..Len(x) : x[j].s = s })
HasAfter(x, i, s) == \E j \in (i + 1)..Len(x) : x[j].s = s

\* the payload of detectHTMLTool: the first ~~~html block, else the first
\* <!DOCTYPE html ... </html>, else the first <html|<body|<div block if it
\* is longer than 500, else the whole content
htmlContentOf(content) ==
    LET x == LowerText(content)
        Fenced == { i \in 1..Len(x) :
                       x[i].s = "~~~html"
                       /\ \E j \in (i + 1)..Len(x) : x[j].s \in FenceStarts }
        Doc == { i \in 1..Len(x) : x[i].s = "<!doctype html" /\ HasAfter(x, i, "</html>") }
        Closer(s) == CASE s = "<html" -> "</html>"
                       [] s = "<body" -> "</body>"
                       [] s = "<div" -> "</div>"
        Block == { i \in 1..Len(x) :
                      x[i].s \in { "<html", "<body", "<div" }
                      /\ HasAfter(x, i, Closer(x[i].s)) }
    IN  IF Fenced # {}
        THEN LET i == Min(Fenced)
                 j == Min({ k \in (i + 1)..Len(x) : x[k].s \in FenceStarts })
             IN  trim(SubSeq(content, i + 1, j - 1))
        ELSE IF Doc # {}
        THEN trim(SubSeq(content, Min(Doc), NextOf(x, Min(Doc), "</html>")))
        ELSE IF Block # {}
        THEN LET i == Min(Block)
                 bodyMatch == SubSeq(content, i, NextOf(x, i, Closer(x[i].s)))
             IN  IF TextLen(bodyMatch) > 500 THEN trim(bodyMatch) ELSE content
        ELSE content

\* an HTML detection of little confidence
detectHTMLToolUnsure(content, agentUsed) ==
    IF ~TextIncludesAny(LowerText(content), HtmlMarkers) \/ TextLen(content) < 1000
    THEN Failure
    ELSE Success(Obj(
           [ content |-> Str(content),
             artifact |-> Obj(
               [ title |-> Lit("Interactive Tool"),
                 content |-> Str(content),
                 type |-> Lit("tool") ]),
             responseType |-> Lit("tool-generation"),
             confidence |-> Num(50),
             agentUsed |-> Lit(agentUsed) ]))

\* Detect HTML tools in conversational format (Noah's tool creation)
detectHTMLTool(content, agentUsed) ==
    LET lower == LowerText(content)
        hasToolKeyword ==
            TextIncludesAny(lower, { "calculator", "timer", "converter", "form",
                                     "tracker", "tool", "widget", "app" })
        hasHTML == TextIncludesAny(lower, HtmlMarkers)
        htmlContent == htmlContentOf(content)
        title == IF TextIncludes(lower, "calculator") THEN "Calculator"
                 ELSE IF TextIncludes(lower, "timer") THEN "Timer"
                 ELSE IF TextIncludes(lower, "converter") THEN "Converter"
                 ELSE IF TextIncludes(lower, "form") THEN "Form"
                 ELSE IF TextIncludes(lower, "tracker") THEN "Tracker"
                 ELSE IF TextIncludes(lower, "counter") THEN "Counter"
                 ELSE IF TextIncludes(lower, "generator") THEN "Generator"
                 ELSE "Interactive Tool"
    IN  IF ~hasHTML \/ TextLen(content) < 1000 THEN Failure
        ELSE Success(Obj(
               [ content |-> Str(content),
                 artifact |-> Obj(
                   [ title |-> Lit(title),
                     content |-> Str(htmlContent),
                     type |-> Lit(inferToolType(<< W(title) >>, htmlContent)),
                     category |-> Lit(inferToolCategory(<< W(title) >>, htmlContent)),
                     description |-> Str(<< W("Generated ") >> \o LowerText(<< W(title) >>)),
                     complexity |-> Lit(inferComplexity(htmlContent)) ]),
                 responseType |-> Lit("tool-generation"),
                 confidence |-> Num(IF hasToolKeyword THEN 80 ELSE 60),
                 agentUsed |-> Lit(agentUsed) ]))

\* a research detection that applies to the Wanderer agent only
detectResearchResultWandererOnly(content, agentUsed) ==
    IF agentUsed # "wanderer"
          \/ ~TextIncludesAny(LowerText(content),
                 { "research", "analysis", "trends", "study", "investigation",
                   "findings", "sources", "data", "statistics", "report" })
          \/ TextLen(content) < 300
    THEN Failure
    ELSE Success(Obj(
           [ content |-> Str(content),
             artifact |-> Obj(
               [ title |-> Lit("Research Report"),
                 content |-> Str(content),
                 type |-> Lit("other"),
                 category |-> Lit("data-processing"),
                 description |-> Lit("Research report generated by Wanderer"),
                 complexity |-> Lit(IF TextLen(content) > 2000 THEN "complex"
                                                               ELSE "moderate") ]),
             responseType |-> Lit("research"),
             confidence |-> Num(85),
             agentUsed |-> Lit(agentUsed) ]))

\* Detect research results from Wanderer agent
detectResearchResult(content, agentUsed) ==
    LET contentLower == LowerText(content)
        hasResearchIndicators ==
            TextIncludesAny(contentLower,
                { "research", "analysis", "trends", "study", "investigation",
                  "findings", "sources", "data", "statistics", "report" })
        title == IF TextIncludes(contentLower, "renewable energy")
                 THEN "Renewable Energy Research"
                 ELSE IF TextIncludes(contentLower, "e-commerce") THEN "E-commerce Analysis"
                 ELSE IF TextIncludes(contentLower, "market analysis")
                 THEN "Market Analysis Report"
                 ELSE IF TextIncludes(contentLower, "trends") THEN "Trends Analysis"
                 ELSE IF TextIncludes(contentLower, "industry") THEN "Industry Research"
                 ELSE "Research Report"
    IN  IF agentUsed # "wanderer" /\ TextLen(content) < 500 THEN Failure
        ELSE IF ~hasResearchIndicators \/ TextLen(content) < 300 THEN Failure
        ELSE Success(Obj(
               [ content |-> Str(content),
                 artifact |-> Obj(
                   [ title |-> Lit(title),
                     content |-> Str(content),
                     type |-> Lit("other"),
                     category |-> Lit("data-processing"),
                     description |-> Lit("Research report generated by Wanderer"),
                     complexity |-> Lit(IF TextLen(content) > 2000 THEN "complex"
                                                                   ELSE "moderate") ]),
                 responseType |-> Lit("research"),
                 confidence |-> Num(85),
                 agentUsed |-> Lit(agentUsed) ]))

\* the first position that holds token s (0: none)
FirstOf(x, s) ==
    LET S == { i \in 1..Len(x) : x[i].s = s } IN IF S = {} THEN 0 ELSE Min(S)

\* content.match(/TITLE:\s*(.+)/): [ok, g], g the captured group.  After
\* the white space the group runs to the end of the line; when only white
\* space follows TITLE:, the group is the last blank of it, if there is one.
titleMatch(x) ==
    LET i == FirstOf(x, "TITLE:")
        j == SkipWs(x, i + 1)
        Eol == { e \in j..Len(x) : HasNewline(x[e]) }
        Blank == { m \in (i + 1)..Len(x) : x[m].s \in { " ", "\t" } }
    IN  IF j <= Len(x)
        THEN [ok |-> TRUE, g |-> SubSeq(x, j, IF Eol = {} THEN Len(x) ELSE Min(Eol) - 1)]
        ELSE IF Blank # {} THEN [ok |-> TRUE, g |-> << x[Max(Blank)] >>]
        ELSE [ok |-> FALSE]

\* "\n\nREASONING:" begins two characters before position r
EndsTool(x, r) ==
    /\ x[r].s = "REASONING:"
    /\ r > 1
    /\ \/ x[r - 1].s = "\n\n"
       \/ x[r - 1].s = "\n" /\ r > 2 /\ HasNewline(x[r - 2])

\* content.match(/TOOL:\s*([\s\S]+?)(?:\n\nREASONING:|$)/): the group runs
\* from the first character that is no white space to the first
\* "\n\nREASONING:" after it, or to the end
toolMatch(x) ==
    LET i == FirstOf(x, "TOOL:")
        j == SkipWs(x, i + 1)
        R == { r \in (j + 1)..Len(x) : EndsTool(x, r) }
    IN  IF j <= Len(x)
        THEN [ok |-> TRUE, g |-> SubSeq(x, j, IF R = {} THEN Len(x) ELSE Min(R) - 1)]
        ELSE IF i < Len(x) THEN [ok |-> TRUE, g |-> << x[Len(x)] >>]
        ELSE [ok |-> FALSE]

\* toolContent.match(/^~~~(?:html|javascript|css|js)?\s*([\s\S]*?)\s*~~~$/),
\* and the group trimmed; toolContent itself when there is no match
unfence(toolContent) ==
    LET n == Len(toolContent)
    IN  IF n >= 2 /\ toolContent[1].s \in FenceStarts /\ toolContent[n].s = "~~~"
        THEN trim( (IF toolContent[1].s = "~~~json" THEN << W("on") >> ELSE << >>)
                   \o SubSeq(toolContent, 2, n - 1) )
        ELSE toolContent

\* content.match(/REASONING:\s*([\s\S]+?)$/), and the group trimmed
reasoningOf(x) ==
    LET i == FirstOf(x, "REASONING:")
    IN  IF i = 0 \/ i = Len(x) THEN Undefined
        ELSE Str(trim(SubSeq(x, i + 1, Len(x))))

\* Parse legacy TITLE:/TOOL: format for backward compatibility
parseLegacyFormat(content, agentUsed) ==
    LET hasTitle == TextIncludes(content, "TITLE:")
        hasTool == TextIncludes(content, "TOOL:")
    IN  IF ~hasTitle \/ ~hasTool THEN Failure
        ELSE IF ~titleMatch(content).ok \/ ~toolMatch(content).ok THEN Failure
        ELSE LET title == trim(titleMatch(content).g)
                 toolContent == unfence(trim(toolMatch(content).g))
             IN  Success(Obj(
                   [ content |-> Str(content),
                     artifact |-> Obj(
                       [ title |-> Str(title),
                         content |-> Str(toolContent),
                         type |-> Lit(inferToolType(title, toolContent)),
                         category |-> Lit(inferToolCategory(title, toolContent)),
                         description |-> Str(<< W("Generated tool: ") >> \o title),
                         complexity |-> Lit(inferComplexity(toolContent)) ]),
                     responseType |-> Lit("tool-generation"),
                     confidence |-> Num(70),
                     reasoning |-> reasoningOf(content),
                     agentUsed |-> Lit(agentUsed) ]))

\* the strategies with the legacy format tried first
StrategyOrderLegacyFirst == << "legacy", "json", "mixed", "html", "research" >>

\* The strategies of parse, in the order it tries them.
StrategyOrder == << "json", "mixed", "html", "research", "legacy" >>

Strategy(name, content, agentUsed) ==
    CASE name = "json" -> parseStructuredJSON(content, agentUsed)
      [] name = "mixed" -> extractStructuredFromMixed(content, agentUsed)
      [] name = "html" -> detectHTMLTool(content, agentUsed)
      [] name = "research" -> detectResearchResult(content, agentUsed)
      [] name = "legacy" -> parseLegacyFormat(content, agentUsed)

\* a fallback that drops the text
ConversationFallbackNoContent(content, agentUsed) ==
    Obj([ responseType |-> Lit("conversation"),
          confidence |-> Num(80), agentUsed |-> Lit(agentUsed) ])

\* a fallback that declares the default agent
ConversationFallbackAsNoah(content, agentUsed) ==
    Obj([ content |-> Str(content), responseType |-> Lit("conversation"),
          confidence |-> Num(80), agentUsed |-> Lit("noah") ])

\* Strategy 6: Fallback to conversation response
ConversationFallback(content, agentUsed) ==
    Obj([ content |-> Str(content), responseType |-> Lit("conversation"),
          confidence |-> Num(80), agentUsed |-> Lit(agentUsed) ])

\* a cascade that gives up when its k-th strategy fails
parseFromGivingUp(k, content, agentUsed, tried, log) ==
    LET name == StrategyOrder[k]
        r == Strategy(name, content, agentUsed)
    IN  IF r.success
        THEN [ result |-> [success |-> TRUE, response |-> r.response],
               attempted |-> Append(tried, name),
               logged |-> log \o r.log \o << [level |-> "debug", strategy |-> name] >> ]
        ELSE [ result |-> [success |-> FALSE, fallbackContent |-> Str(content),
                           error |-> "Unknown parsing error"],
               attempted |-> Append(tried, name),
               logged |-> Append(log, [level |-> "error",
                            msg |-> "Failed to parse response with all strategies"]) ]

\* parse from its k-th strategy on: the strategy is tried, and its result is
\* returned if it succeeded
RECURSIVE parseFrom(_, _, _, _, _)
parseFrom(k, content, agentUsed, tried, log) ==
    IF k > Len(StrategyOrder)
    THEN [ result |-> [success |-> TRUE,
                       response |-> ConversationFallback(content, agentUsed)],
           attempted |-> Append(tried, "conversation"),
           logged |-> Append(log, [level |-> "info",
                        msg |-> "Parsing as conversation response (no artifacts detected)"]) ]
    ELSE LET name == StrategyOrder[k]
             r == Strategy(name, content, agentUsed)
         IN  IF r.success
             THEN [ result |-> [success |-> TRUE, response |-> r.response],
                    attempted |-> Append(tried, name),
                    logged |-> log \o r.log \o << [level |-> "debug", strategy |-> name] >> ]
             ELSE parseFrom(k + 1, content, agentUsed, Append(tried, name), log \o r.log)

\* Parse LLM response with multiple strategies for maximum reliability
parse(content, agentUsed) == parseFrom(1, content, agentUsed, << >>, << >>)

-----------------------------------------------------------------------------
(***************************************************************************)
(* Inputs of the parser: an LLM reply is at most MaxChunks fragments of    *)
(* ChunkLibrary, with at most one run of filler prose that brings the      *)
(* reply to a length of TextLengths.  The run of filler is a fragment of   *)
(* its own, or the inside of a fragment.                                   *)
(***************************************************************************)

FillChunk == << Filler(0) >>

ChunkLibrary ==
    LET
        Quote == W("\"")
        JString(key, x) == << W(key), Quote >> \o x \o << Quote >>

        \* {"content":<c>,"responseType":<t>,"confidence":<n>,"agentUsed":<a> <rest>}
        JResponse(c, t, n, a, rest) ==
            << W("{") >> \o JString("\"content\":", c) \o << W(",") >>
               \o JString("\"responseType\":", << W(t) >>)
               \o << W(","), W("\"confidence\":"), W(n), W(",") >>
               \o JString("\"agentUsed\":", << W(a) >>) \o rest \o << W("}") >>

        \* ,"artifact":{ <members> }
        JArtifact(members) == << W(","), W("\"artifact\":"), W("{") >> \o members \o << W("}") >>

        TitleMember == JString("\"title\":", << W("Calc") >>) \o << W(",") >>
        ContentTypeMembers ==
            JString("\"content\":", << W("code") >>) \o << W(",") >>
               \o JString("\"type\":", << W("tool") >>)
    IN
    <<
        << W("hello") >>,
        JResponse(<< W("hello") >>, "conversation", "0.9", "tinkerer", << >>),
        JResponse(<< W("hello") >>, "tool-generation", "0.9", "noah",
                  JArtifact(TitleMember \o ContentTypeMembers)),
        JResponse(<< W("hello") >>, "conversation", "0.9", "noah",
                  JArtifact(TitleMember \o ContentTypeMembers)),
        JResponse(<< W("hello") >>, "tool-generation", "0.9", "noah",
                  JArtifact(ContentTypeMembers)),
        JResponse(<< W("hello") >>, "conversation", "1.5", "noah", << >>),
        JResponse(<< W("TITLE:"), W(" "), W("Calc"), W(" "), W("TOOL:"), W(" "), W("code") >>,
                  "conversation", "0.9", "noah", << >>),
        JResponse(<< W("hello") >>, "tool-generation", "0.9", "noah",
                  << W(","), W("\"artifact\":"), W("null") >>),
        JResponse(<< W("hello") >>, "conversation", "-0.5", "noah", << >>),
        JResponse(<< W("hello") >>, "summary", "0.9", "noah", << >>),
        JResponse(<< W("hello") >>, "conversation", "0.9", "oracle", << >>),
        << W("{"), W("\"content\":"), W("null"), W(","), W("\"responseType\":"),
           Quote, W("conversation"), Quote, W(","), W("\"confidence\":"), W("0.9"),
           W(","), W("\"agentUsed\":"), Quote, W("noah"), Quote, W("}") >>,
        << W("TITLE:"), W(" "), W("Calc"), W("\n") >>,
        << W("TITLE:"), W(" ") >>,
        << W("TOOL:"), W(" "), W("code") >>,
        << W("TOOL:"), W(" ") >>,
        << W("\n\n"), W("REASONING:"), W(" "), W("because") >>,
        << W("TITLE:"), W(" "), W("Calc"), W("\n"), W("TOOL:"), W(" "), W("code") >>,
        << W("TITLE:"), W(" "), W("Calc"), W("\n"), W("TOOL:"), W(" "), W("~~~html"), W("\n"),
           W("<div"), W(">"), W("hello"), W("</div>"), W("\n"), W("~~~") >>,
        << W("\n"), W("REASONING:"), W(" "), W("because") >>,
        << W("<body"), W(">"), Filler(0), W("</body>") >>,
        << W("<div"), W(">"), W("hello"), W("</div>") >>,
        << W("~~~html"), W("\n"), W("<div"), W(">"), W("hello"), W("</div>"), W("\n"), W("~~~") >>,
        << W("~~~html"), W("\n"), W("~~~") >>,
        << W("<!DOCTYPE html"), W(">"), W("<html"), W(">"), W("hello"), W("</html>") >>,
        << W("research") >>,
        << W("calculator") >>,
        FillChunk,
        << W("\n") >>,
        << W("~~~json"), W("\n") >>,
        << W("\n"), W("~~~") >>,
        << W("{") >>,
        << W("}") >>
    >>

\* a reply is at most MaxChunks fragments
MaxChunks == 2

\* the lengths a reply with filler is brought to
TextLengths == { 299, 300, 499, 500, 999, 1000, 1001, 2000, 2001 }

Agents == { "noah", "wanderer", "tinkerer" }

\* the fragments ps in a row, the filler being n characters
RECURSIVE Build(_, _)
Build(ps, n) ==
    IF ps = << >> THEN << >>
    ELSE LET chunk == ChunkLibrary[Head(ps)]
         IN  [ i \in 1..Len(chunk) |-> IF chunk[i] = Filler(0) THEN Filler(n) ELSE chunk[i] ]
                \o Build(Tail(ps), n)

\* the runs of filler in the fragments ps
Fills(ps) ==
    Cardinality({ i \in 1..Len(ps) :
                     \E k \in 1..Len(ChunkLibrary[ps[i]]) : ChunkLibrary[ps[i]][k] = Filler(0) })

Texts ==
    LET Seqs == UNION { [1..n -> 1..Len(ChunkLibrary)] : n \in 0..MaxChunks }
    IN  { Build(ps, 0) : ps \in { qs \in Seqs : Fills(qs) = 0 } }
        \cup { Build(ps[1], ps[2] - TextLen(Build(ps[1], 0))) :
                 ps \in { qs \in Seqs \X TextLengths :
                             Fills(qs[1]) = 1 /\ qs[2] > TextLen(Build(qs[1], 0)) } }

-----------------------------------------------------------------------------
(***************************************************************************)
(* The parser as a state machine: a call of parse                          *)
(***************************************************************************)

FilterIdle ==
    /\ message = << >>
    /\ fstate = "idle"
    /\ verdict = NoVerdict
    /\ invoked = << >>

ParseInit ==
    /\ ptext \in Texts
    /\ pagent \in Agents
    /\ pstate = "ready"
    /\ presult = NoResult
    /\ attempted = << >>
    /\ logged = << >>
    /\ FilterIdle
    /\ ChatIdle
    /\ past = << >>
    /\ OthersIdle

Parse ==
    /\ pstate = "ready"
    /\ \E r \in { parse(ptext, pagent) } :
          /\ presult' = r.result
          /\ attempted' = r.attempted
          /\ logged' = r.logged
    /\ pstate' = "returned"
    /\ UNCHANGED << ptext, pagent, filterVars, chatVars, past, infer, agents, pool >>

ParseNext == Parse

ParseSpec == ParseInit /\ [][ParseNext]_vars

-----------------------------------------------------------------------------
(***************************************************************************)
(* Properties of the parser                                                *)
(***************************************************************************)

\* the order of the strategies as the interface of parse documents it
ChainOrder == << "json", "mixed", "html", "research", "legacy", "conversation" >>

\* what the k-th strategy of the documented chain makes of a reply
Outcome(k, content, agentUsed) ==
    IF k = 6
    THEN [ success |-> TRUE,
           response |-> Obj([ content |-> Str(content),
                              responseType |-> Lit("conversation"),
                              confidence |-> Num(80),
                              agentUsed |-> Lit(agentUsed) ]) ]
    ELSE Strategy(ChainOrder[k], content, agentUsed)

\* the reply, trimmed, is JSON of the shape of a StructuredResponse
IsStructuredJSON(x) ==
    /\ JSONparse(trim(x)).ok
    /\ isValidStructuredResponse(JSONparse(trim(x)).v)

HasMarkers(x) == TextIncludes(x, "TITLE:") /\ TextIncludes(x, "TOOL:")

\* C6: parse tries pure JSON, embedded JSON, HTML-tool detection, research
\* detection, legacy TITLE:/TOOL: and the conversation fallback in this
\* order; it returns the result of the first that succeeds and tries none
\* after it.  A reply that is StructuredResponse JSON and holds the TITLE:
\* and TOOL: markers is returned by the pure-JSON strategy with the
\* confidence of the JSON, not the 0.7 of the legacy strategy.
C6_StrictPriority ==
    pstate = "returned" =>
       /\ \E k \in 1..6 :
             /\ attempted = SubSeq(ChainOrder, 1, k)
             /\ \A j \in 1..(k - 1) : ~Outcome(j, ptext, pagent).success
             /\ Outcome(k, ptext, pagent).success
             /\ presult.success
             /\ presult.response = Outcome(k, ptext, pagent).response
       /\ IsStructuredJSON(ptext) /\ HasMarkers(ptext) =>
             /\ attempted = << "json" >>
             /\ Get(presult.response, "confidence")
                   = Get(JSONparse(trim(ptext)).v, "confidence")

C6_Witness ==
    /\ pstate = "returned"
    /\ IsStructuredJSON(ptext)
    /\ HasMarkers(ptext)
    /\ attempted = << "json" >>
    /\ Get(presult.response, "confidence") = Num(90)

\* the artifact of a response is present
HasArtifact(response) == Get(response, "artifact") # Undefined

\* C7: in every successful result of parse, a response with an artifact has
\* the responseType tool-generation or research.
C7_ArtifactImpliesType ==
    pstate = "returned" /\ presult.success /\ HasArtifact(presult.response) =>
       Get(presult.response, "responseType") \in { Lit("tool-generation"), Lit("research") }

ArtifactTypes ==
    { "calculator", "component", "utility", "dashboard", "app", "tool", "other" }

\* an artifact with a non-empty title, a non-empty content and a type of the
\* enumeration
WellShaped(a) ==
    /\ a.t = "object"
    /\ Get(a, "title").t = "string" /\ TextLen(Get(a, "title").x) > 0
    /\ Get(a, "content").t = "string" /\ TextLen(Get(a, "content").x) > 0
    /\ Get(a, "type") \in { Lit(t) : t \in ArtifactTypes }

\* C8: every artifact in a successful result of parse has a non-empty title,
\* a non-empty content and a type of the enumeration, whichever strategy
\* made it.
C8_ArtifactWellShaped ==
    pstate = "returned" /\ presult.success
         /\ Get(presult.response, "artifact").t = "object" =>
       WellShaped(Get(presult.response, "artifact"))

\* C9: a reply that is StructuredResponse JSON with an artifact field that
\* fails the shape check is parsed with success; the response has no artifact
\* field, and its content, responseType, confidence and agentUsed are those
\* of the JSON.
C9_ShapeRecovery ==
    LET json == JSONparse(trim(ptext)).v
    IN  pstate = "returned" /\ IsStructuredJSON(ptext)
             /\ "artifact" \in DOMAIN json.o /\ ~WellShaped(json.o["artifact"]) =>
           /\ presult.success
           /\ "artifact" \notin DOMAIN presult.response.o
           /\ \A k \in { "content", "responseType", "confidence", "agentUsed" } :
                 Get(presult.response, k) = Get(json, k)

\* the reply holds JSON: some run of it from a { to a } is a JSON text
HoldsJSON(x) ==
    \E i \in 1..Len(x) : \E j \in i..Len(x) :
       x[i].s = "{" /\ x[j].s = "}" /\ JSONparse(SubSeq(x, i, j)).ok

\* the reply holds an HTML marker and is at least 1000 characters long
HoldsLongHTML(x) == TextIncludesAny(LowerText(x), HtmlMarkers) /\ TextLen(x) >= 1000

ResearchWords ==
    { "research", "analysis", "trends", "study", "investigation",
      "findings", "sources", "data", "statistics", "report" }

\* nothing in the reply that a strategy before the fallback looks for
Plain(x) ==
    /\ ~HoldsJSON(x)
    /\ ~HasMarkers(x)
    /\ ~HoldsLongHTML(x)
    /\ ~TextIncludesAny(LowerText(x), ResearchWords)

\* C10: a reply with no JSON, without the TITLE:/TOOL: markers, without HTML
\* in a text of 1000 characters or more and without a research word is, for
\* every declared agent, parsed with success as a conversation of confidence
\* 0.8 by the declared agent, with no artifact and the reply as its content.
C10_ConversationFallback ==
    pstate = "returned" /\ Plain(ptext) =>
       presult = [ success |-> TRUE,
                   response |-> Obj([ content |-> Str(ptext),
                                      responseType |-> Lit("conversation"),
                                      confidence |-> Num(80),
                                      agentUsed |-> Lit(pagent) ]) ]

C10_Witness ==
    /\ pstate = "returned"
    /\ Plain(ptext)
    /\ TextIncludesAny(LowerText(ptext), HtmlMarkers)
    /\ TextLen(ptext) = 999
    /\ pagent = "wanderer"
    /\ Get(presult.response, "responseType") = Lit("conversation")

\* JSON.parse throws in parseStructuredJSON called with x: the trimmed text
\* begins with { and ends with }, and is no JSON text
ThrowsInJSON(x) ==
    LET trimmed == trim(x)
    IN  /\ trimmed # << >>
        /\ trimmed[1].s = "{" /\ trimmed[Len(trimmed)].s = "}"
        /\ ~JSONparse(trimmed).ok

\* JSON.parse throws in the call that extractStructuredFromMixed makes
ThrowsInMixed(x) ==
    IF jsonMatch(x) # << >> THEN ThrowsInJSON(jsonMatch(x))
    ELSE rawJsonMatch(x) # << >> /\ ThrowsInJSON(rawJsonMatch(x))

\* the strategies in which an exception occurred during the call of parse
Thrown ==
    { k \in 1..Len(attempted) :
         \/ attempted[k] = "json" /\ ThrowsInJSON(ptext)
         \/ attempted[k] = "mixed" /\ ThrowsInMixed(ptext) }

\* C11 as stated: if an exception occurs in the cascade, inside a strategy
\* included, parse returns success false with the raw text as fallbackContent
\* and no response.
C11_ExceptionFailsParse ==
    pstate = "returned" /\ Thrown # { } =>
       /\ ~presult.success
       /\ DOMAIN presult = { "success", "fallbackContent", "error" }
       /\ presult.fallbackContent = Str(ptext)

\* C11 amended: an exception inside a strategy is caught by that strategy,
\* which fails; parse logs no error, goes on with the next strategy on
\* the same text and returns the result of the first strategy that succeeds,
\* a success with a response and no fallbackContent.
C11_ExceptionContained ==
    pstate = "returned" /\ Thrown # { } =>
       /\ \A k \in Thrown :
             /\ Len(attempted) > k
             /\ attempted[k + 1] = ChainOrder[k + 1]
       /\ \E k \in 1..6 :
             /\ attempted = SubSeq(ChainOrder, 1, k)
             /\ presult = [ success |-> TRUE,
                            response |-> Outcome(k, ptext, pagent).response ]
       /\ \A i \in 1..Len(logged) : logged[i].level # "error"

C11_Witness ==
    /\ pstate = "returned"
    /\ Thrown = { 1, 2 }
    /\ attempted = SubSeq(ChainOrder, 1, 5)
    /\ presult.success
    /\ Get(presult.response, "confidence") = Num(70)

-----------------------------------------------------------------------------
(***************************************************************************)
(* The public boundary of the two components: one call of checkContent or  *)
(* one call of parse, for every input of the two state machines above.     *)
(* A call is one step: it is the evaluation of checkContent or of parse    *)
(* to the value returned, and a thrown exception would be a result that    *)
(* is neither a verdict nor a ParseResult.                                 *)
(***************************************************************************)

BoundarySpec == (FilterInit \/ ParseInit) /\ [][CheckContent \/ Parse]_vars

\* the caller of checkContent has a verdict
HasVerdict ==
    /\ verdict # NoVerdict
    /\ { "isAllowed", "confidence", "radioSilence" } \subseteq DOMAIN verdict
    /\ verdict.isAllowed \in BOOLEAN /\ verdict.radioSilence \in BOOLEAN
    /\ verdict.confidence \in 0..100

\* the caller of parse has text to show
HasText ==
    /\ presult # NoResult
    /\ \/ /\ presult.success
          /\ "response" \in DOMAIN presult
          /\ Get(presult.response, "content").t = "string"
       \/ /\ ~presult.success
          /\ "fallbackContent" \in DOMAIN presult
          /\ presult.fallbackContent = Str(ptext)

\* C12: neither component throws across its public boundary.  Every call of
\* checkContent with a string message returns a verdict, and every call of
\* parse with a string text and a declared agent returns a ParseResult that
\* is a success whose response has a string content, or a failure whose
\* fallbackContent is the input text.
C12_NoThrow ==
    /\ fstate = "returned" => HasVerdict
    /\ pstate = "returned" => HasText

C12_Witness ==
    /\ pstate = "returned"
    /\ Thrown # { }
    /\ HasText
    /\ Get(presult.response, "content") = Str(ptext)
    /\ ptext # << >>

-----------------------------------------------------------------------------
(***************************************************************************)
(* Calls in a row.  The two components are synchronous functions: a call   *)
(* runs from entry to return with no other code in between, so calls made  *)
(* for concurrent requests are calls made one after another, in any order. *)
(* Neither class has a field and neither module a variable besides its     *)
(* logger, so a call reads its arguments and nothing else.                 *)
(***************************************************************************)

\* at most MaxCalls calls are made
MaxCalls == 3

\* a checkContent that reads the conversation history too
checkContentWithHistory(context) ==
    checkContent(IF context.conversationHistory = << >> THEN context.userMessage
                 ELSE context.conversationHistory[1] \o context.userMessage)

\* checkContent(context): const { userMessage } = context
checkContentOf(context) == checkContent(context.userMessage)

CallsInit ==
    /\ past = << >>
    /\ logged = << >>
    /\ FilterIdle
    /\ ParserIdle
    /\ ChatIdle
    /\ OthersIdle

\* a call of checkContent with a SafetyContext
CallCheckContent ==
    /\ Len(past) < MaxCalls
    /\ \E context \in
            [ userMessage : { << "help", "me" >>,
                              << "how", "can", "I", "kill", "my", "neighbor" >> },
              conversationHistory : { << >>, << << "i", "want", "to", "kill" >> >> },
              sessionId : { Undefined, Lit("session-1") } ] :
          \E r \in { checkContentOf(context) } :
             /\ message' = context.userMessage
             /\ verdict' = r.result
             /\ invoked' = r.invoked
             /\ logged' = logged \o r.logged
             /\ past' = Append(past, [ fn |-> "checkContent", args |-> context,
                                       result |-> r.result ])
    /\ fstate' = "returned"
    /\ UNCHANGED << parserVars, chatVars, infer, agents, pool >>

\* a call of parse with a text and a declared agent
CallParse ==
    /\ Len(past) < MaxCalls
    /\ \E content \in { << W("hello") >>, << W("research"), Filler(292) >> } :
          \E agentUsed \in { "noah", "wanderer" } :
             \E r \in { parse(content, agentUsed) } :
                /\ ptext' = content
                /\ pagent' = agentUsed
                /\ presult' = r.result
                /\ attempted' = r.attempted
                /\ logged' = logged \o r.logged
                /\ past' = Append(past, [ fn |-> "parse",
                                          args |-> [ content |-> content,
                                                     agentUsed |-> agentUsed ],
                                          result |-> r.result ])
    /\ pstate' = "returned"
    /\ UNCHANGED << filterVars, chatVars, infer, agents, pool >>

CallsSpec == CallsInit /\ [][CallCheckContent \/ CallParse]_vars

C14_NoSideEffect ==
    fstate = "returned" =>
       /\ logged = << >>
       /\ ParserIdle /\ ChatIdle /\ past = << >>

\* C14 amended: a call of checkContent writes two entries to its own logger
\* and changes nothing else outside its return value: first the info entry
\* "Safety check initiated", then the debug entry "Content passed safety
\* checks" on the allowed path or the warn entry "Safety violation detected"
\* with the violation type on the violation path.
C14_OnlyLogs ==
    fstate = "returned" =>
       /\ logged =
             << [ level |-> "info", msg |-> "Safety check initiated" ],
                IF verdict.isAllowed
                THEN [ level |-> "debug", msg |-> "Content passed safety checks" ]
                ELSE [ level |-> "warn", msg |-> "Safety violation detected",
                       violationType |-> verdict.violationType ] >>
       /\ ParserIdle /\ ChatIdle /\ past = << >>

C14_Witness ==
    /\ fstate = "returned"
    /\ ~verdict.isAllowed
    /\ Len(logged) = 2
    /\ logged[2].level = "warn"
    /\ logged[2].violationType = "self-harm"

\* the strategy that made the result of parse
Last == attempted[Len(attempted)]

\* the reply, trimmed, is a JSON object with a confidence outside [0,1]
ConfidenceOutOfRange(x) ==
    /\ JSONparse(trim(x)).ok
    /\ Get(JSONparse(trim(x)).v, "confidence").t = "number"
    /\ Get(JSONparse(trim(x)).v, "confidence").n \notin 0..100

\* C15: every response of a successful parse has a confidence within [0,1],
\* whichever strategy made it.  JSON with a confidence outside [0,1] is not
\* returned by the JSON strategies, and the heuristic strategies emit 0.6 or
\* 0.8 (HTML tool), 0.85 (research), 0.7 (legacy) and 0.8 (conversation).
C15_ConfidenceRange ==
    pstate = "returned" /\ presult.success =>
       /\ Get(presult.response, "confidence").t = "number"
       /\ Get(presult.response, "confidence").n \in 0..100
       /\ ConfidenceOutOfRange(ptext) => Last \notin { "json", "mixed" }
       /\ Last = "html" => Get(presult.response, "confidence").n \in { 60, 80 }
       /\ Last = "research" => Get(presult.response, "confidence").n = 85
       /\ Last = "legacy" => Get(presult.response, "confidence").n = 70
       /\ Last = "conversation" => Get(presult.response, "confidence").n = 80

C15_Witness ==
    /\ pstate = "returned"
    /\ presult.success
    /\ ConfidenceOutOfRange(ptext)
    /\ Get(JSONparse(trim(ptext)).v, "confidence") = Num(150)
    /\ Last = "conversation"
    /\ Get(presult.response, "confidence") = Num(80)

\* the trimmed reply begins with { and ends with }, parses as JSON, and
\* the object has a string content, a responseType and an agentUsed of the
\* enumerations and a numeric confidence in [0,1]
PureJSON(x) ==
    LET trimmed == trim(x)
        json == JSONparse(trimmed)
    IN  /\ trimmed # << >>
        /\ trimmed[1].s = "{" /\ trimmed[Len(trimmed)].s = "}"
        /\ json.ok
        /\ Get(json.v, "content").t = "string"
        /\ \E t \in { "conversation", "tool-generation", "research", "analysis" } :
              Get(json.v, "responseType") = Lit(t)
        /\ \E a \in { "noah", "wanderer", "tinkerer" } : Get(json.v, "agentUsed") = Lit(a)
        /\ Get(json.v, "confidence").t = "number"
        /\ Get(json.v, "confidence").n >= 0 /\ Get(json.v, "confidence").n <= 100

\* C16: the pure-JSON strategy succeeds if and only if the trimmed reply
\* begins with {, ends with }, parses as JSON and has a string content, a
\* responseType of the four types, an agentUsed of the three agents and a
\* numeric confidence in [0,1].  In every other case, a JSON syntax error
\* included, it fails without an error and parse goes on with the
\* embedded-JSON strategy on the original reply.
C16_PureJSON ==
    pstate = "returned" =>
       /\ attempted = << "json" >> <=> PureJSON(ptext)
       /\ PureJSON(ptext) =>
             /\ presult.success
             /\ \A k \in { "content", "responseType", "confidence", "agentUsed" } :
                   Get(presult.response, k) = Get(JSONparse(trim(ptext)).v, k)
       /\ ~PureJSON(ptext) =>
             /\ Len(attempted) >= 2 /\ attempted[2] = "mixed"
             /\ \E k \in 2..6 :
                   /\ attempted = SubSeq(ChainOrder, 1, k)
                   /\ \A j \in 2..(k - 1) : ~Outcome(j, ptext, pagent).success
                   /\ presult = [ success |-> TRUE,
                                  response |-> Outcome(k, ptext, pagent).response ]
             /\ \A i \in 1..Len(logged) : logged[i].level # "error"

C16_Witness ==
    /\ pstate = "returned"
    /\ ThrowsInJSON(ptext)
    /\ ~PureJSON(ptext)
    /\ attempted = << "json", "mixed" >>
    /\ presult.success
    /\ Get(presult.response, "content") = Lit("hello")

\* C17: HTML-tool detection succeeds only if the reply holds an HTML marker
\* and is more than 1000 characters long; for a reply of 1000 characters or
\* fewer the strategy fails, whatever markers the reply holds.
C17_HTMLGate ==
    pstate = "returned" =>
       /\ Last = "html" =>
             /\ TextIncludesAny(LowerText(ptext), HtmlMarkers)
             /\ TextLen(ptext) > 1000
       /\ TextLen(ptext) <= 1000 => ~detectHTMLTool(ptext, pagent).success

\* the span of x from the first opener to the first closer after it, and
\* << >> when there is none
Span(x, opener, closer) ==
    LET lower == LowerText(x)
        S == { i \in 1..Len(x) : lower[i].s = opener /\ HasAfter(lower, i, closer) }
    IN  IF S = { } THEN << >> ELSE SubSeq(x, Min(S), NextOf(lower, Min(S), closer))

\* the body of the first fenced html block of x, as a set of at most one
FencedBodies(x) ==
    LET lower == LowerText(x)
        S == { i \in 1..Len(x) :
                  lower[i].s = "~~~html"
                  /\ \E j \in (i + 1)..Len(x) : lower[j].s \in FenceStarts }
    IN  IF S = { } THEN { }
        ELSE { trim(SubSeq(x, Min(S) + 1,
                 Min({ j \in (Min(S) + 1)..Len(x) : lower[j].s \in FenceStarts }) - 1)) }

\* the payloads that the stated preference allows for x
PreferredPayloads(x) ==
    LET Spans == { Span(x, "<html", "</html>"), Span(x, "<body", "</body>"),
                   Span(x, "<div", "</div>") }
        Largest == { s \in Spans : \A t \in Spans : TextLen(t) <= TextLen(s) }
    IN  IF FencedBodies(x) # { } THEN FencedBodies(x)
        ELSE IF Span(x, "<!doctype html", "</html>") # << >>
        THEN { Span(x, "<!doctype html", "</html>") }
        ELSE IF \E s \in Largest : TextLen(s) > 500 THEN Largest
        ELSE { x }

\* C18: when HTML-tool detection succeeds, the content of the artifact is the
\* body of a fenced html block if there is one; else the span from
\* <!DOCTYPE html to </html>; else the largest of the <html>, <body> and
\* <div> spans if it is longer than 500 characters; else the whole reply.
\* The content of the response is the whole reply.
C18_PayloadPreference ==
    pstate = "returned" /\ Last = "html" =>
       /\ Get(presult.response, "content") = Str(ptext)
       /\ \E payload \in PreferredPayloads(ptext) :
             Get(Get(presult.response, "artifact"), "content") = Str(payload)

\* C19: research detection succeeds exactly when the declared agent is
\* wanderer or the reply is at least 500 characters long, and the reply in
\* lower case holds a research-indicator word, and the reply is at least 300
\* characters long.  The response then has the responseType research, the
\* confidence 0.85 and an artifact with the whole reply as content, the type
\* other, and the complexity complex if the reply is longer than 2000
\* characters and moderate if not.
C19_ResearchDetection ==
    pstate = "returned" /\ Len(attempted) >= 4 =>
       /\ Last = "research" <=>
             /\ pagent = "wanderer" \/ TextLen(ptext) >= 500
             /\ TextIncludesAny(LowerText(ptext), ResearchWords)
             /\ TextLen(ptext) >= 300
       /\ Last = "research" =>
             /\ presult.success
             /\ Get(presult.response, "responseType") = Lit("research")
             /\ Get(presult.response, "confidence") = Num(85)
             /\ Get(presult.response, "content") = Str(ptext)
             /\ Get(Get(presult.response, "artifact"), "content") = Str(ptext)
             /\ Get(Get(presult.response, "artifact"), "type") = Lit("other")
             /\ Get(Get(presult.response, "artifact"), "complexity") =
                   Lit(IF TextLen(ptext) > 2000 THEN "complex" ELSE "moderate")

C19_Witness ==
    /\ pstate = "returned"
    /\ Last = "research"
    /\ pagent = "noah"
    /\ TextLen(ptext) = 2001
    /\ Get(Get(presult.response, "artifact"), "complexity") = Lit("complex")

\* the positions of the REASONING: markers of x that follow its TOOL: marker
ReasoningAfterTool(x) ==
    { r \in (FirstOf(x, "TOOL:") + 1)..Len(x) : x[r].s = "REASONING:" }

\* C20: in the legacy strategy the content of the artifact is the reply
\* after the TOOL: marker up to, and never including, a REASONING: marker
\* that follows, or up to the end when none follows, with a surrounding code
\* fence stripped; the text after REASONING: is returned as reasoning.  When
\* a REASONING: marker follows TOOL:, the content of the artifact holds no
\* part of the REASONING: section.
C20_LegacyToolContent ==
    pstate = "returned" /\ Last = "legacy" =>
       LET R == ReasoningAfterTool(ptext)
           stop == IF R = { } THEN Len(ptext) + 1 ELSE Min(R)
           content == Get(Get(presult.response, "artifact"), "content")
       IN  /\ content =
                 Str(unfence(trim(SubSeq(ptext, FirstOf(ptext, "TOOL:") + 1, stop - 1))))
           /\ R # { } =>
                 /\ \A i \in 1..Len(content.x) : content.x[i].s # "REASONING:"
                 /\ Cardinality({ i \in 1..Len(ptext) : ptext[i].s = "REASONING:" }) = 1 =>
                       Get(presult.response, "reasoning")
                          = Str(trim(SubSeq(ptext, Min(R) + 1, Len(ptext))))

\* the strategies that make an artifact by heuristics
Heuristic == { "html", "research", "legacy" }

\* C21 as stated: a legacy-format success has the confidence 0.7, and no
\* successful result of HTML detection, research detection or the legacy
\* format has a confidence below 0.7.
C21_LegacyLowest ==
    pstate = "returned" /\ presult.success /\ Last \in Heuristic =>
       /\ Last = "legacy" => Get(presult.response, "confidence") = Num(70)
       /\ Get(presult.response, "confidence").n >= 70

\* C21 amended: a legacy-format success has the confidence 0.7, and no
\* successful result of HTML detection, research detection or the legacy
\* format has a confidence below 0.6: the lowest, 0.6, is that of an HTML
\* detection in a reply without a tool keyword.
C21_HtmlLowest ==
    pstate = "returned" /\ presult.success /\ Last \in Heuristic =>
       /\ Last = "legacy" => Get(presult.response, "confidence") = Num(70)
       /\ Get(presult.response, "confidence").n >= 60
       /\ Get(presult.response, "confidence").n < 70 =>
             /\ Last = "html"
             /\ ~TextIncludesAny(LowerText(ptext),
                    { "calculator", "timer", "converter", "form", "tracker", "tool",
                      "widget", "app" })

C21_Witness ==
    /\ pstate = "returned"
    /\ Last = "html"
    /\ HasArtifact(presult.response)
    /\ Get(presult.response, "confidence") = Num(60)

\* the title that a reply in the legacy format declares: the rest of the
\* line after TITLE:
DeclaredTitle(x) ==
    LET i == SkipWs(x, FirstOf(x, "TITLE:") + 1)
        Eol == { e \in i..Len(x) : HasNewline(x[e]) }
    IN  trim(SubSeq(x, i, IF Eol = { } THEN Len(x) ELSE Min(Eol) - 1))

\* C27: a reply in the legacy format, text that is no JSON and holds a
\* TITLE: and a TOOL: marker, is parsed as a tool-generation response of
\* confidence 0.7 whose artifact has the text after TITLE: as title, whatever
\* the length of the reply and whatever HTML tags or research words it holds.
C27_LegacyFormatHonoured ==
    pstate = "returned" /\ HasMarkers(ptext) /\ ~HoldsJSON(ptext) =>
       /\ presult.success
       /\ Get(presult.response, "responseType") = Lit("tool-generation")
       /\ Get(presult.response, "confidence") = Num(70)
       /\ Get(Get(presult.response, "artifact"), "title") = Str(DeclaredTitle(ptext))

\* C30: the agentUsed of the response of every successful parse is the
\* declared agent that parse was called with, whichever strategy made the
\* response.
C30_AgentEchoed ==
    pstate = "returned" /\ presult.success =>
       Get(presult.response, "agentUsed") = Lit(pagent)

\* the rule groups of the violence evaluator that match the message, by
\* their place in the order instructional, planning, glorification,
\* bypass attempt with keyword
ViolenceGroupsHit ==
    LET m == LowerAll(message)
    IN  { k \in 1..4 :
            \/ k = 1 /\ AnyTest(instructionalPatterns, m)
            \/ k = 2 /\ AnyTest(planningPatterns, m)
            \/ k = 3 /\ AnyTest(glorificationPatterns, m)
            \/ k = 4 /\ hasNoExceptionsBypass(m) /\ hasViolenceKeywords(m) }

\* those of the self-harm evaluator, in the order instructions, direct
\* intent, encouragement
SelfHarmGroupsHit ==
    LET m == LowerAll(message)
    IN  { k \in 1..3 :
            \/ k = 1 /\ AnyTest(selfHarmInstructions, m)
            \/ k = 2 /\ AnyTest(directSelfHarmIntent, m)
            \/ k = 3 /\ AnyTest(encouragementPatterns, m) }

\* C24: in the violence and the self-harm evaluator the first rule group
\* that matches, in the evaluator's fixed order, gives reason and
\* confidence: instructional 0.95, planning 0.90, glorification 0.85, bypass
\* attempt with keyword 0.80; instructions 0.95, direct intent 0.98,
\* encouragement 0.90.  A message that matches several groups gets the
\* confidence of the earliest, also when a later one is higher.
C24_FirstGroupWins ==
    fstate = "returned" =>
       /\ ViolenceGroupsHit # { } =>
             /\ verdict.violationType = "violence"
             /\ verdict.confidence = << 95, 90, 85, 80 >>[Min(ViolenceGroupsHit)]
             /\ verdict.reason =
                   << "Instructional content for violence/weapons",
                      "Planning violence against others",
                      "Glorifying or encouraging violence",
                      "Attempted bypass of violence restrictions" >>[Min(ViolenceGroupsHit)]
       /\ ViolenceGroupsHit = { } /\ SelfHarmGroupsHit # { } =>
             /\ verdict.violationType = "self-harm"
             /\ verdict.confidence = << 95, 98, 90 >>[Min(SelfHarmGroupsHit)]
             /\ verdict.reason =
                   << "Instructions for self-harm",
                      "Direct self-harm intent statement",
                      "Encouraging self-harm" >>[Min(SelfHarmGroupsHit)]
       /\ ViolenceGroupsHit = { } /\ ~verdict.isAllowed => verdict.violationType # "violence"
       /\ ViolenceGroupsHit = { } /\ SelfHarmGroupsHit = { } /\ ~verdict.isAllowed =>
             verdict.violationType # "self-harm"

C24_Witness ==
    /\ fstate = "returned"
    /\ ViolenceGroupsHit = { }
    /\ SelfHarmGroupsHit = { 1, 2 }
    /\ verdict.confidence = 95

\* C25: the hate-speech evaluator reports a violation for a message that
\* matches a pattern of any of its rule groups, harassment, organized
\* harassment or dehumanizing content: checkContent does not allow such a
\* message.
C25_EveryGroupConsulted ==
    fstate = "returned"
    /\ \/ AnyTest(harassmentPatterns, LowerAll(message))
       \/ AnyTest(organizedHarassmentPatterns, LowerAll(message))
       \/ AnyTest(dehumanizingPatterns, LowerAll(message))
    => ~verdict.isAllowed

-----------------------------------------------------------------------------
(***************************************************************************)
(* The inference of an artifact's type, category and complexity from its   *)
(* title and content (inferToolType, inferToolCategory, inferComplexity),  *)
(* as detectHTMLTool and parseLegacyFormat apply it                        *)
(***************************************************************************)

\* a content is at most MaxInferChunks fragments, and filler
MaxInferChunks == 2

InferInit ==
    LET Titles ==
           { << >>, << W("Calc") >>, << W("Tip"), W(" "), W("Calculator") >>,
             << W("calculate") >>, << W("dashboard") >>, << W("component") >>,
             << W("app") >>, << W("application") >>, << W("utility") >>,
             << W("tool") >> }
        Chunks ==
           << << W("code") >>, << W("calculator") >>, << W("calculate") >>,
              << W("dashboard") >>, << W("component") >>, << W("app") >>,
              << W("application") >>, << W("utility") >>, << W("tool") >>,
              << W("class") >>, << W("for"), W(" "), W("(") >>,
              << W("try"), W("{") >>, << W("for") >> >>
        Lengths == { 0, 500, 501, 1500, 1501, 3000, 3001 }
        Join(ps) == IF Len(ps) = 0 THEN << >>
                    ELSE IF Len(ps) = 1 THEN Chunks[ps[1]]
                    ELSE Chunks[ps[1]] \o << W(" ") >> \o Chunks[ps[2]]
                            \o (IF Len(ps) = 2 THEN << >>
                                ELSE << W(" ") >> \o Chunks[ps[3]])
        Contents ==
           { IF n > TextLen(Join(ps)) THEN Join(ps) \o << Filler(n - TextLen(Join(ps))) >>
             ELSE Join(ps) :
               <<ps, n>> \in (UNION { [1..k -> 1..Len(Chunks)] : k \in 0..MaxInferChunks })
                                \X Lengths }
    IN  /\ infer \in [ state : { "ready" }, title : Titles, content : Contents ]
        /\ logged = << >>
        /\ FilterIdle /\ ParserIdle /\ ChatIdle /\ past = << >>
        /\ agents = [state |-> "idle"]
        /\ pool = [state |-> "idle"]

\* the artifact's type, category and complexity are inferred
InferArtifact ==
    /\ infer.state = "ready"
    /\ infer' = [ state |-> "inferred",
                  title |-> infer.title,
                  content |-> infer.content,
                  type |-> inferToolType(infer.title, infer.content),
                  category |-> inferToolCategory(infer.title, infer.content),
                  complexity |-> inferComplexity(infer.content) ]
    /\ UNCHANGED << filterVars, logged, parserVars, chatVars, past, agents, pool >>

InferSpec == InferInit /\ [][InferArtifact]_vars

\* the keywords of the types, in the order of the claim
TypeKeywords ==
    << [ type |-> "calculator", words |-> { "calculator" } ],
       [ type |-> "dashboard", words |-> { "dashboard" } ],
       [ type |-> "component", words |-> { "component" } ],
       [ type |-> "app", words |-> { "app", "application" } ],
       [ type |-> "utility", words |-> { "utility" } ],
       [ type |-> "tool", words |-> { "tool" } ] >>

\* C22 as stated: the type is that of the first keyword, in the order
\* calculator, dashboard, component, app or application, utility, tool, that
\* the lowercased title or the lowercased content holds, and other if they
\* hold none.
C22_KeywordAnywhere ==
    infer.state = "inferred" =>
       LET Hit == { k \in 1..Len(TypeKeywords) :
                       \/ TextIncludesAny(LowerText(infer.title), TypeKeywords[k].words)
                       \/ TextIncludesAny(LowerText(infer.content), TypeKeywords[k].words) }
       IN  infer.type = IF Hit = { } THEN "other" ELSE TypeKeywords[Min(Hit)].type

\* the keywords that count in the title and those that count in the content
FieldKeywords ==
    << [ type |-> "calculator", title |-> { "calculator" }, content |-> { "calculate" } ],
       [ type |-> "dashboard", title |-> { "dashboard" }, content |-> { "dashboard" } ],
       [ type |-> "component", title |-> { "component" }, content |-> { "component" } ],
       [ type |-> "app", title |-> { "app" }, content |-> { "application" } ],
       [ type |-> "utility", title |-> { "utility" }, content |-> { "utility" } ],
       [ type |-> "tool", title |-> { "tool" }, content |-> { } ] >>

\* C22 amended: the type is that of the first rule that matches, in the order
\* calculator, dashboard, component, app, utility, tool, and other if none
\* does; a rule matches by its title keyword in the lowercased title or by
\* its content keyword in the lowercased content, and the two differ:
\* calculator / calculate, app / application, tool / none.
C22_KeywordPerField ==
    infer.state = "inferred" =>
       LET Hit == { k \in 1..Len(FieldKeywords) :
                       \/ TextIncludesAny(LowerText(infer.title), FieldKeywords[k].title)
                       \/ TextIncludesAny(LowerText(infer.content), FieldKeywords[k].content) }
       IN  infer.type = IF Hit = { } THEN "other" ELSE FieldKeywords[Min(Hit)].type

C22_Witness ==
    /\ infer.state = "inferred"
    /\ TextIncludes(LowerText(infer.content), "utility")
    /\ TextIncludes(LowerText(infer.content), "dashboard")
    /\ TextIncludes(LowerText(infer.title), "tool")
    /\ infer.type = "dashboard"

\* C23: content longer than 3000 or holding an advanced-pattern marker is
\* advanced; else content longer than 1500 or holding a control-flow marker
\* is complex; else content longer than 500 is moderate; else it is simple.
\* The lengths 3000, 1500 and 500 themselves do not cross.
C23_ComplexityOrder ==
    infer.state = "inferred" =>
       LET length == TextLen(infer.content)
           advanced == \E i \in 1..Len(infer.content) :
                          infer.content[i].s \in { "class", "interface", "async", "await",
                                                   "fetch", "api" }
           controlFlow == \E i \in 1..Len(infer.content) :
                             \E j \in (i + 1)..Len(infer.content) :
                                /\ \A k \in (i + 1)..(j - 1) : IsWs(infer.content[k])
                                /\ \/ /\ infer.content[i].s
                                            \in { "for", "while", "switch", "catch" }
                                      /\ infer.content[j].s = "("
                                   \/ /\ infer.content[i].s = "try"
                                      /\ infer.content[j].s = "{"
       IN  /\ infer.complexity = "advanced" <=> (length >= 3001 \/ advanced)
           /\ infer.complexity = "complex"
                 <=> (~(length >= 3001 \/ advanced) /\ (length >= 1501 \/ controlFlow))
           /\ infer.complexity = "moderate"
                 <=> (length \in 501..1500 /\ ~advanced /\ ~controlFlow)
           /\ infer.complexity = "simple"
                 <=> (length <= 500 /\ ~advanced /\ ~controlFlow)

C23_Witness ==
    /\ infer.state = "inferred"
    /\ TextLen(infer.content) = 5
    /\ infer.content = << W("class") >>
    /\ infer.complexity = "advanced"

-----------------------------------------------------------------------------
(***************************************************************************)
(* The chat route (route.ts): noahChatHandler and noahStreamingChatHandler *)
(* handling one request.  calls records, in order, the collaborators the   *)
(* handler has called: [fn |-> the function, arg |-> what tells the calls  *)
(* of fn apart].                                                           *)
(***************************************************************************)

\* content.length of a message of words joined by single spaces
RECURSIVE Length(_)
Length(msg) ==
    IF msg = << >> THEN 0
    ELSE Len(Head(msg)) + (IF Len(msg) > 1 THEN 1 ELSE 0) + Length(Tail(msg))

\* keywords.some(keyword => content.includes(keyword)) for keywords of one
\* or more adjacent words
SomeIncluded(msg, keywords) ==
    \E k \in keywords : Includes(msg, [i \in 1..Len(k) |-> {k[i]}])

\* NoahSafetyService.checkUserMessage
checkUserMessage(userMessage) ==
    LET safetyResult == checkContent(userMessage).result
    IN  IF safetyResult.radioSilence
        THEN [ shouldProceed |-> FALSE, interfaceLocked |-> TRUE, radioSilence |-> TRUE,
               violation |-> [ type |-> safetyResult.violationType,
                               reason |-> safetyResult.reason,
                               confidence |-> safetyResult.confidence ],
               loggedToAnalytics |-> TRUE ]
        ELSE [ shouldProceed |-> TRUE, interfaceLocked |-> FALSE, radioSilence |-> FALSE,
               loggedToAnalytics |-> TRUE ]

\* Noah's simple decision process
analyzeRequest(content) ==
    LET contentLower == LowerAll(content)
        canNoahDoThis ==
            SomeIncluded(contentLower,
               { <<"how", "to">>, <<"explain">>, <<"help", "me", "understand">>,
                 <<"what", "is">>, <<"tell", "me", "about">>,
                 <<"calculator">>, <<"timer">>, <<"converter">>, <<"counter">>,
                 <<"stopwatch">>, <<"clock">>, <<"password", "generator">>,
                 <<"random", "generator">>, <<"color", "picker">>, <<"notepad">>,
                 <<"list">>, <<"checklist">>, <<"outline">>, <<"template">>,
                 <<"email">>, <<"letter">>, <<"summary">>, <<"plan">>, <<"advice">>,
                 <<"tips">>, <<"steps">>, <<"instructions">> })
        needsResearch ==
            SomeIncluded(contentLower,
               { <<"research", "the", "latest">>, <<"research", "current">>,
                 <<"market", "analysis">>, <<"industry", "trends">>,
                 <<"comprehensive", "study">>, <<"latest", "trends", "in">> })
        needsBuilding ==
            SomeIncluded(contentLower,
               { <<"react", "component">>, <<"vue", "component">>,
                 <<"angular", "component">>, <<"interactive", "dashboard">>,
                 <<"data", "visualization">>, <<"full", "application">>,
                 <<"database", "integration">>, <<"api", "integration">>,
                 <<"complex", "interface">> })
    IN  [ needsResearch |-> needsResearch,
          needsBuilding |-> needsBuilding,
          confidence |-> 90,
          reasoning |->
             IF needsResearch /\ needsBuilding
             THEN "Too complex - needs research then building"
             ELSE IF needsBuilding THEN "Too complex - needs specialized building"
             ELSE IF needsResearch THEN "Too complex - needs deep research"
             ELSE IF canNoahDoThis THEN "Quick and easy - Noah can handle this!"
             ELSE "Simple conversation - Noah handles directly" ]

\* the keywords of tool creation (isSimpleQuestion, and the direct path)
toolKeywords ==
    { <<"create">>, <<"build">>, <<"make">>, <<"calculator">>, <<"timer">>,
      <<"converter">>, <<"tool">>, <<"app">>, <<"component">> }

\* Fast path for simple factual questions only
isSimpleQuestion(content) ==
    LET contentLower == LowerAll(content)
        isFactual ==
            /\ SomeIncluded(contentLower,
                  { <<"what", "is">>, <<"who", "is">>, <<"when", "is">>, <<"where", "is">>,
                    <<"how", "many">>, <<"what", "are">>, <<"capital", "of">>,
                    <<"population", "of">>, <<"currency", "of">>, <<"language", "of">>,
                    <<"definition", "of">>, <<"meaning", "of">>, <<"explain">>,
                    <<"define">> })
            /\ Length(content) < 100
        isToolCreation == SomeIncluded(contentLower, toolKeywords)
    IN  isFactual /\ ~isToolCreation

\* one call of a collaborator
Call(fn, arg) == [fn |-> fn, arg |-> arg]

\* analyticsService.logMessage, called if the conversation is tracked
\* (conversationState.conversationId && conversationState.sessionId)
logMessage(content) ==
    IF request.analytics THEN << Call("logMessage", content) >> ELSE << >>

\* the locals agentUsed, agentStrategy and the content generated; onFinish
\* is the callback a stream of the model was started with
Locals(agentUsed, agentStrategy, content, onFinish) ==
    [ agentUsed |-> agentUsed, agentStrategy |-> agentStrategy,
      content |-> content, onFinish |-> onFinish ]

\* the text stream of streamText(...).toTextStreamResponse(): what the model
\* generates
ModelStream == [kind |-> "model-stream", status |-> "stream", content |-> "model"]

\* the outer catch (error) of the handler: the calls it adds and its reply
Caught ==
    IF request.handler = "noah"
    THEN [ calls |-> << >>, local |-> local, cpc |-> "done",
           reply |-> [kind |-> "json", status |-> "error",
                      content |-> "I'm experiencing technical difficulties."] ]
    ELSE [ calls |-> << Call("streamText", "userFriendlyMessage") >>, local |-> local,
           cpc |-> "done", reply |-> ModelStream ]

\* The handler from the passed safety check to the generated content: the
\* calls it adds, its locals, its reply and where it is then.  An agent or
\* the model may fail (throw or time out), which gives several outcomes.
Orchestrations ==
    LET lastMessage == request.messages[Len(request.messages)]
        analysis == analyzeRequest(lastMessage)
        plan == (IF analysis.needsResearch THEN << "wandererResearch" >> ELSE << >>)
                   \o (IF analysis.needsBuilding THEN << "tinkererBuild" >> ELSE << >>)
        agentUsed == IF analysis.needsBuilding THEN "tinkerer" ELSE "wanderer"
        agentStrategy ==
            IF ~analysis.needsResearch THEN "noah_tinkerer"
            ELSE IF analysis.needsBuilding THEN "noah_wanderer_tinkerer" ELSE "noah_wanderer"
        taskType == IF SomeIncluded(LowerAll(lastMessage), toolKeywords)
                    THEN "deepbuild" ELSE "default"
        \* Noah handles directly, or as the fallback after agentError
        Direct(made, strategy, onFinish) ==
            IF request.handler = "noah"
            THEN { [ calls |-> made \o << Call("generateText", taskType) >>,
                     local |-> Locals("noah", strategy, "model", "none"),
                     cpc |-> "generated", reply |-> reply ],
                   [ Caught EXCEPT !.calls = made \o << Call("generateText", taskType) >> ] }
            ELSE { [ calls |-> made \o << Call("streamText", "messages") >>,
                     local |-> Locals("noah", strategy, "", onFinish),
                     cpc |-> "streaming", reply |-> ModelStream ] }
        Calls(n) == [i \in 1..n |-> Call(plan[i], "messages")]
    IN  IF request.handler = "streaming" /\ isSimpleQuestion(lastMessage)
        THEN { [ calls |-> logMessage("user") \o << Call("streamText", "messages") >>,
                 local |-> Locals("noah", "noah_direct", "", "fast path"),
                 cpc |-> "streaming", reply |-> ModelStream ] }
        ELSE IF plan = << >>
        THEN Direct(logMessage("user"), "noah_direct", "direct")
        ELSE { [ calls |-> logMessage("user") \o Calls(Len(plan)),
                 local |-> Locals(agentUsed, agentStrategy, "agent", "none"),
                 cpc |-> "generated", reply |-> reply ] }
             \cup UNION { Direct(logMessage("user") \o Calls(n),
                                 "noah_direct_fallback", "fallback") :
                          n \in 1..Len(plan) }

\* handler: the handler the request goes to; readable: req.json() resolves
\* in time; messages: no message, one message, or a message after an
\* earlier one; analytics: the conversation is tracked; session:
\* context.sessionId
Requests ==
    LET ChatInputs ==
            { << "What", "is", "the", "capital", "of", "France?" >>,
              << "how", "can", "I", "kill", "my", "neighbor" >>,
              << "help", "me" >>,
              << "research", "the", "latest", "trends" >>,
              << "build", "a", "react", "component" >>,
              << "research", "the", "latest", "react", "component" >>,
              << "make", "a", "calculator" >>,
              << "how", "to", "cook", "meth" >>,
              << >> }
        MessageArrays ==
            { << >> } \cup { << m >> : m \in ChatInputs }
               \cup { << << "how", "can", "I", "kill", "my", "neighbor" >>,
                         << "help", "me" >> >>,
                      << << "help", "me" >>, << "how", "to", "cook", "meth" >> >> }
    IN  [ handler : { "noah", "streaming" }, readable : BOOLEAN,
          messages : MessageArrays, analytics : BOOLEAN, session : BOOLEAN ]

ChatInit ==
    /\ request \in Requests
    /\ cpc = "start"
    /\ safety = NoVerdict
    /\ local = Locals("noah", "noah_direct", "", "none")
    /\ calls = << >>
    /\ reply = NoReply
    /\ logged = << >>
    /\ FilterIdle
    /\ ParserIdle
    /\ past = << >>
    /\ OthersIdle

\* the request is read and validated
Receive ==
    /\ cpc = "start"
    /\ \E o \in { IF ~request.readable THEN Caught
                  ELSE IF request.messages # << >>
                  THEN [ calls |-> << Call("initializeConversationState", "request") >>,
                         local |-> local, cpc |-> "validated", reply |-> reply ]
                  ELSE IF request.handler = "noah"
                  THEN [ calls |-> << Call("initializeConversationState", "request") >>,
                         local |-> local, cpc |-> "done",
                         reply |-> [kind |-> "json", status |-> "error",
                                    content |-> "I didn't receive any messages to respond to."] ]
                  ELSE [ calls |-> << Call("streamText", "I didn't receive any messages to respond to.") >>,
                         local |-> local, cpc |-> "done", reply |-> ModelStream ] } :
          /\ calls' = calls \o o.calls
          /\ reply' = o.reply
          /\ cpc' = o.cpc
    /\ UNCHANGED << request, safety, local, logged, filterVars, parserVars, past, infer, agents, pool >>

\* SAFETY CHECK
SafetyCheck ==
    /\ cpc = "validated"
    /\ safety' = checkUserMessage(request.messages[Len(request.messages)])
    /\ calls' = Append(calls, Call("checkUserMessage", request.messages[Len(request.messages)]))
    /\ cpc' = "checked"
    /\ UNCHANGED << request, local, reply, logged, filterVars, parserVars, past, infer, agents, pool >>

\* the test the handler makes of the safety response
Locked == IF request.handler = "noah" THEN safety.interfaceLocked ELSE safety.radioSilence

\* the handler's return on a safety violation
Lockdown ==
    /\ cpc = "checked"
    /\ Locked
    /\ IF request.handler = "noah"
       THEN /\ calls' = calls \o logMessage("[SAFETY_VIOLATION]")
            /\ reply' = [kind |-> "json", status |-> "interface_locked", content |-> "   "]
       ELSE /\ calls' = calls \o logMessage("[SAFETY_VIOLATION]")
                           \o << Call("streamText", "") >>
            /\ reply' = ModelStream
    /\ cpc' = "done"
    /\ UNCHANGED << request, safety, local, logged, filterVars, parserVars, past, infer, agents, pool >>

\* normal processing up to the generated content or the started stream
Orchestrate ==
    /\ cpc = "checked"
    /\ ~Locked
    /\ \E o \in Orchestrations :
          /\ calls' = calls \o o.calls
          /\ local' = o.local
          /\ reply' = o.reply
          /\ cpc' = o.cpc
    /\ UNCHANGED << request, safety, logged, filterVars, parserVars, past, infer, agents, pool >>

\* the generated content is processed for artifacts and returned; the
\* workflow finds an artifact in it or not
ProcessArtifacts ==
    /\ cpc = "generated"
    /\ \E hasArtifact \in BOOLEAN :
          /\ calls' = calls \o logMessage("assistant")
                         \o << Call("handleArtifactWorkflow",
                                    IF request.handler = "noah" THEN local.agentUsed
                                                                ELSE "undefined") >>
                         \o (IF request.handler = "noah" /\ hasArtifact /\ request.session
                             THEN << Call("sessionArtifacts.push", local.agentUsed) >>
                             ELSE << >>)
          /\ reply' = [ kind |-> IF request.handler = "noah" THEN "json" ELSE "stream",
                        status |-> "success", content |-> local.content,
                        artifact |-> hasArtifact ]
    /\ cpc' = "done"
    /\ UNCHANGED << request, safety, local, logged, filterVars, parserVars, past, infer, agents, pool >>

\* onFinish of a stream of the model
OnFinish ==
    /\ cpc = "streaming"
    /\ calls' = calls \o logMessage("assistant")
                   \o (IF local.onFinish = "direct"
                       THEN << Call("handleArtifactWorkflow", "undefined") >> ELSE << >>)
    /\ cpc' = "done"
    /\ UNCHANGED << request, safety, local, reply, logged, filterVars, parserVars, past, infer, agents, pool >>

ChatNext ==
    \/ Receive
    \/ SafetyCheck
    \/ Lockdown
    \/ Orchestrate
    \/ ProcessArtifacts
    \/ OnFinish

ChatSpec == ChatInit /\ [][ChatNext]_vars

-----------------------------------------------------------------------------
(***************************************************************************)
(* Properties of the chat route (ChatSpec)                                 *)
(***************************************************************************)

\* the positions in calls of the calls of the functions fns
CallsOf(fns) == { i \in DOMAIN calls : calls[i].fn \in fns }

ModelFunctions == { "generateText", "streamText", "wandererResearch", "tinkererBuild" }

\* C5: in both chat handlers, for a request with a non-empty messages array
\* the safety verdict of the last user message is computed exactly once and
\* before any call of the model or of an agent; and when the verdict has
\* radioSilence, neither the model nor an agent is called, no artifact
\* processing runs and no substantive reply is produced.
C5_SafetyGate ==
    request.handler \in { "noah", "streaming" } /\ request.readable
          /\ request.messages # << >> =>
       /\ Cardinality(CallsOf({ "checkUserMessage" })) <= 1
       /\ cpc \notin { "start", "validated" } =>
             \E j \in CallsOf({ "checkUserMessage" }) :
                calls[j].arg = request.messages[Len(request.messages)]
       /\ \A i \in CallsOf(ModelFunctions) :
             \E j \in CallsOf({ "checkUserMessage" }) : j < i
       /\ safety # NoVerdict /\ safety.radioSilence =>
             /\ CallsOf(ModelFunctions) = { }
             /\ CallsOf({ "handleArtifactWorkflow" }) = { }
             /\ reply # NoReply => reply.content = "   "

\* ArtifactService.handleArtifactWorkflow: the agentUsed it hands to
\* StructuredResponseParser.parse, given the argument of its caller
\* (agentUsed: 'noah' | 'wanderer' | 'tinkerer' = 'noah')
DeclaredAgent(agentUsed) == IF agentUsed = "undefined" THEN "noah" ELSE agentUsed

-----------------------------------------------------------------------------
(***************************************************************************)
(* The module-level agent cache of route.ts: ensureAgentsInitialized       *)
(* called by several requests.  JavaScript runs one piece of code at a     *)
(* time, so calls interleave only where a run awaits.  An object is named   *)
(* by the run that made it, null is 0, a promise is the run it belongs to. *)
(***************************************************************************)

\* the calls of ensureAgentsInitialized that are made
MaxEnsureCalls == 4

\* the initialisation that is awaiting initializeResources, or 0
InFlight(a) ==
    IF \E r \in 1..Len(a.runs) : a.runs[r] = "pending"
    THEN CHOOSE r \in 1..Len(a.runs) : a.runs[r] = "pending"
    ELSE 0

\* a variant that looks at the cached instances only
ensureAgentsInitializedUnshared(a) ==
    IF a.wandererInstance # 0 /\ a.tinkererInstance # 0 /\ a.sharedResourcesCache # 0
    THEN [ agents |-> a, returned |-> 0, started |-> FALSE ]
    ELSE [ agents |-> [ a EXCEPT !.runs = Append(a.runs, "pending"),
                                 !.agentInitializationPromise = Len(a.runs) + 1 ],
           returned |-> Len(a.runs) + 1, started |-> TRUE ]

\* ensureAgentsInitialized up to its return: the cache after it, the promise
\* the caller awaits (0: none, the agents are there) and whether it started
\* an initialisation, which then runs up to  await initializeResources(...)
ensureAgentsInitialized(a) ==
    IF a.wandererInstance # 0 /\ a.tinkererInstance # 0 /\ a.sharedResourcesCache # 0
    THEN [ agents |-> a, returned |-> 0, started |-> FALSE ]
    ELSE IF a.agentInitializationPromise # 0
    THEN [ agents |-> a, returned |-> a.agentInitializationPromise, started |-> FALSE ]
    ELSE [ agents |-> [ a EXCEPT !.runs = Append(a.runs, "pending"),
                                 !.agentInitializationPromise = Len(a.runs) + 1 ],
           returned |-> Len(a.runs) + 1, started |-> TRUE ]

AgentsInit ==
    /\ agents = [ state |-> "live",
                  wandererInstance |-> 0, tinkererInstance |-> 0,
                  sharedResourcesCache |-> 0, agentInitializationPromise |-> 0,
                  runs |-> << >>, callers |-> << >> ]
    /\ logged = << >>
    /\ FilterIdle /\ ParserIdle /\ ChatIdle /\ past = << >>
    /\ infer = [state |-> "idle"]
    /\ pool = [state |-> "idle"]

\* wandererResearch or tinkererBuild calls ensureAgentsInitialized
EnsureAgentsInitialized ==
    /\ Len(agents.callers) < MaxEnsureCalls
    /\ \E o \in { ensureAgentsInitialized(agents) } :
          agents' = [ o.agents EXCEPT !.callers =
                         Append(agents.callers,
                                [ awaits |-> o.returned, started |-> o.started,
                                  inFlight |-> InFlight(agents),
                                  initialised |->
                                     \E r \in 1..Len(agents.runs) :
                                        agents.runs[r] = "resolved" ]) ]
    /\ UNCHANGED << filterVars, logged, parserVars, chatVars, past, infer, pool >>

\* initializeResources settles and the initialisation runs to its end: it
\* caches the resources and the two agents, or it fails at one of the three
\* and its catch resets the cache
ResumeInitialization ==
    /\ InFlight(agents) # 0
    /\ \E outcome \in { "resolved", "initializeResources rejected",
                        "new WandererAgent threw", "new PracticalAgent threw" } :
          LET r == InFlight(agents)
          IN  agents' =
                 IF outcome = "resolved"
                 THEN [ agents EXCEPT
                          !.sharedResourcesCache = IF @ = 0 THEN r ELSE @,
                          !.wandererInstance = IF @ = 0 THEN r ELSE @,
                          !.tinkererInstance = IF @ = 0 THEN r ELSE @,
                          !.runs[r] = outcome ]
                 ELSE [ agents EXCEPT
                          !.wandererInstance = 0,
                          !.tinkererInstance = 0,
                          !.sharedResourcesCache = 0,
                          !.agentInitializationPromise = 0,
                          !.runs[r] = outcome ]
    /\ UNCHANGED << filterVars, logged, parserVars, chatVars, past, infer, pool >>

AgentsSpec == AgentsInit /\ [][EnsureAgentsInitialized \/ ResumeInitialization]_vars

\* C26: at most one initialisation is in flight at a time, and a caller that
\* arrives while one is in flight awaits that run; once a run has succeeded
\* the two agents and the shared resources are non-null, are those that run
\* made, and later calls start nothing; after a failed run the three and the
\* promise are null, and the next call starts a fresh initialisation.
C26_InitialisedOnce ==
    agents.state = "live" =>
       LET Runs == 1..Len(agents.runs)
           Resolved == { r \in Runs : agents.runs[r] = "resolved" }
       IN  /\ Cardinality({ r \in Runs : agents.runs[r] = "pending" }) <= 1
           /\ \A c \in 1..Len(agents.callers) :
                 LET caller == agents.callers[c]
                 IN  /\ caller.inFlight # 0 =>
                           caller.awaits = caller.inFlight /\ ~caller.started
                     /\ caller.initialised => caller.awaits = 0 /\ ~caller.started
                     /\ caller.inFlight = 0 /\ ~caller.initialised =>
                           caller.started /\ caller.awaits # 0
           /\ Cardinality(Resolved) <= 1
           /\ \A r \in Resolved :
                 /\ agents.wandererInstance = r
                 /\ agents.tinkererInstance = r
                 /\ agents.sharedResourcesCache = r
           /\ Resolved = { } /\ InFlight(agents) = 0 =>
                 /\ agents.wandererInstance = 0
                 /\ agents.tinkererInstance = 0
                 /\ agents.sharedResourcesCache = 0
                 /\ agents.agentInitializationPromise = 0

C26_Witness ==
    /\ agents.state = "live"
    /\ Len(agents.runs) = 2
    /\ agents.runs[1] = "new WandererAgent threw"
    /\ agents.runs[2] = "resolved"
    /\ \E c \in 1..Len(agents.callers) :
          agents.callers[c].inFlight = 2 /\ ~agents.callers[c].started
    /\ agents.callers[Len(agents.callers)].initialised

-----------------------------------------------------------------------------
(***************************************************************************)
(* SecureAnalyticsPool.executeQuery (connection-pool.ts): one call, with   *)
(* the promises and timers its attempts leave behind.  A client is named   *)
(* by the order in which the pool hands it out; null is 0.                 *)
(***************************************************************************)

\* options.retries is at most MaxRetries
MaxRetries == 3

\* The end of an attempt's try block, from the settling of the awaited race
\* to the next await or the return: with rows the call returns them; with
\* an error the catch block keeps it as lastError, returns null or throws
\* after the last attempt and else waits for the backoff; finally releases
\* the client on a return.
EndAttempt(p, outcome) ==
    LET released ==
           IF p.client = 0 THEN p.clients
           ELSE [ p.clients EXCEPT ![p.client].released = @ + 1 ]
    IN  IF outcome = "rows"
        THEN [ p EXCEPT !.pc = "returned", !.result = "rows", !.clients = released ]
        ELSE IF p.attempt = p.retries
        THEN [ p EXCEPT !.pc = "returned", !.lastError = outcome,
                        !.result = IF p.skipOnError THEN "null" ELSE "threw",
                        !.clients = released ]
        ELSE [ p EXCEPT !.pc = "backoff", !.lastError = outcome ]

PoolInit ==
    /\ pool \in [ state : { "live" }, pc : { "called" },
                  retries : 1..MaxRetries, skipOnError : BOOLEAN,
                  attempt : { 0 }, client : { 0 },
                  connects : { << >> }, clients : { << >> }, lastError : { "null" },
                  result : { "none" } ]
    /\ logged = << >>
    /\ FilterIdle /\ ParserIdle /\ ChatIdle /\ past = << >>
    /\ infer = [state |-> "idle"]
    /\ agents = [state |-> "idle"]

\* executeQuery up to its first await in the loop: initialize() fails and
\* the call throws, or the first attempt asks the pool for a client
ExecuteQuery ==
    /\ pool.state = "live"
    /\ pool.pc = "called"
    /\ \E initialized \in BOOLEAN :
          pool' = IF initialized
                  THEN [ pool EXCEPT !.pc = "connecting", !.attempt = 1,
                                     !.connects = << "pending" >> ]
                  ELSE [ pool EXCEPT !.pc = "returned", !.result = "threw" ]
    /\ UNCHANGED << filterVars, logged, parserVars, chatVars, past, infer, agents >>

\* pool.connect() of an attempt resolves: the pool hands out a client.  The
\* attempt that still awaits it takes it and sends the query.
ConnectResolves ==
    /\ pool.state = "live"
    /\ \E a \in 1..Len(pool.connects) :
          /\ pool.connects[a] = "pending"
          /\ LET handed == [ pool EXCEPT
                               !.connects[a] = "resolved",
                               !.clients = Append(@, [ attempt |-> a, released |-> 0 ]) ]
             IN  pool' = IF pool.pc = "connecting" /\ a = pool.attempt
                         THEN [ handed EXCEPT !.client = Len(handed.clients),
                                              !.pc = "querying" ]
                         ELSE handed
    /\ UNCHANGED << filterVars, logged, parserVars, chatVars, past, infer, agents >>

\* pool.connect() of an attempt rejects
ConnectRejects ==
    /\ pool.state = "live"
    /\ \E a \in 1..Len(pool.connects) :
          /\ pool.connects[a] = "pending"
          /\ LET rejected == [ pool EXCEPT !.connects[a] = "rejected" ]
             IN  pool' = IF pool.pc = "connecting" /\ a = pool.attempt
                         THEN EndAttempt(rejected, "connect failed")
                         ELSE rejected
    /\ UNCHANGED << filterVars, logged, parserVars, chatVars, past, infer, agents >>

\* the timer raced against pool.connect() fires first
ConnectTimeout ==
    /\ pool.state = "live"
    /\ pool.pc = "connecting"
    /\ pool' = EndAttempt(pool, "Pool connection timeout")
    /\ UNCHANGED << filterVars, logged, parserVars, chatVars, past, infer, agents >>

\* client.query() settles, with rows or with an error
QueryCompletes ==
    /\ pool.state = "live"
    /\ pool.pc = "querying"
    /\ \E outcome \in { "rows", "query failed" } : pool' = EndAttempt(pool, outcome)
    /\ UNCHANGED << filterVars, logged, parserVars, chatVars, past, infer, agents >>

\* the timer raced against client.query() fires first
QueryTimeout ==
    /\ pool.state = "live"
    /\ pool.pc = "querying"
    /\ pool' = EndAttempt(pool, "Query timeout")
    /\ UNCHANGED << filterVars, logged, parserVars, chatVars, past, infer, agents >>

\* the backoff is over: finally releases the attempt's client, and the next
\* attempt asks the pool for a client
BackoffEnds ==
    /\ pool.state = "live"
    /\ pool.pc = "backoff"
    /\ pool' = [ pool EXCEPT
                   !.clients = IF pool.client = 0 THEN @
                               ELSE [ @ EXCEPT ![pool.client].released = @ + 1 ],
                   !.client = 0,
                   !.attempt = @ + 1,
                   !.connects = Append(@, "pending"),
                   !.pc = "connecting" ]
    /\ UNCHANGED << filterVars, logged, parserVars, chatVars, past, infer, agents >>

PoolSpec ==
    PoolInit /\ [][ExecuteQuery \/ ConnectResolves \/ ConnectRejects \/ ConnectTimeout
                      \/ QueryCompletes \/ QueryTimeout \/ BackoffEnds]_vars

\* C28: every client the pool hands out for an attempt of executeQuery is
\* released exactly once: never twice, and once executeQuery has returned
\* no client it was handed is still checked out.
C28_ReleasedExactlyOnce ==
    pool.state = "live" =>
       \A k \in 1..Len(pool.clients) :
          /\ pool.clients[k].released <= 1
          /\ pool.pc = "returned" => pool.clients[k].released = 1

=============================================================================
